---- MODULE Spec2Model ----
(***************************************************************************)
(* Model of the BGP topology viewer (Sortiziz/Scripts): the layout engine  *)
(* bgpHierarchicalLayout, the loader, the validators and the time slider.  *)
(*                                                                         *)
(* Coordinates are fixed-point integers: one pixel is Pix units, so the    *)
(* JavaScript doubles of the source are tracked to a tenth of a pixel.     *)
(* Angles are multiples of 10 degrees (AngleUnits per turn), cos and sin   *)
(* are read from a table scaled by TrigScale.                              *)
(***************************************************************************)
EXTENDS Integers, Sequences, FiniteSets, TLC

VARIABLES
    cyNodes,    \* cy.nodes(): sequence of [id, type, parent, router, locked, pos]
    cyEdges,    \* cy.edges(): sequence of [source, target, weight, type]
    pc,         \* position of the running handler / layout invocation
    nodeMap,    \* nodeMap of the running bgpHierarchicalLayout invocation
    iter,       \* loop counter i of the force loop
    draws,      \* outcomes of Math.random() in the running invocation
    slotOf,     \* index given to each router / interface by the reorder pass
    lastDraws,  \* observation: draws of the last committed run on this graph
    drags,      \* drag gestures made so far
    graphData,  \* the document handed to a validator or to the transformer
    outcome,    \* what the call returned: "pending", "valid" or the Error thrown
    warnings,   \* console.warn messages of the call, in order
    interfaceNodeToRouter,  \* module-level map of the transformer: interface id -> router id
    elements,   \* nodes and edges built so far by the transformer
    stage,      \* position of initializeGraph in its calls
    savedData,  \* localStorage "bgpNodeData": saved positions and lock flags
    spacings,   \* spacing and minSpacing of the running resolveOverlaps call
    eventIndex, \* eventIndex of setupInteractivity: events applied so far
    inputLoop,  \* the running time-slider handler: loop variable i and newIndex
    restores    \* initializeGraph() promises not yet resolved: their newIndex

layoutVars == <<cyNodes, cyEdges, pc, nodeMap, iter, draws, slotOf, lastDraws, drags>>
dataVars   == <<graphData, outcome, warnings>>
transformVars == <<interfaceNodeToRouter, elements, stage>>
loadVars   == <<savedData, spacings>>
sliderVars == <<eventIndex, inputLoop, restores>>
envVars    == <<dataVars, transformVars, loadVars, sliderVars>>
vars       == <<layoutVars, envVars>>

(***************************************************************************)
(* Bounds of the model                                                     *)
(***************************************************************************)
IterBudget == 2          \* force iterations explored per run (code: 100 / 200)
MaxDrags   == 1          \* drag gestures explored in one behaviour

(***************************************************************************)
(* Numeric representation                                                  *)
(***************************************************************************)
Pix        == 10
TrigScale  == 1000
AngleUnits == 36
CosTab     == <<1000, 985, 940, 866, 766, 643, 500, 342, 174, 0,
                -174, -342, -500, -643, -766, -866, -940, -985, -1000,
                -985, -940, -866, -766, -643, -500, -342, -174, 0,
                174, 342, 500, 643, 766, 866, 940, 985>>
RandomAngles == {3, 12}   \* outcomes of Math.random() * 2 * Math.PI explored
SliderAngles == {3}       \* the outcome explored under the time slider
LayoutAngles == IF stage = "interactive" THEN SliderAngles ELSE RandomAngles
Width      == 800 * Pix  \* cy.width()
Height     == 600 * Pix  \* cy.height()

Quot(a, b) == IF a >= 0 THEN a \div b ELSE -((-a) \div b)
Min(a, b)  == IF a <= b THEN a ELSE b
Max(a, b)  == IF a >= b THEN a ELSE b

RECURSIVE SqrtSearch(_, _, _)
SqrtSearch(n, lo, hi) ==
    IF hi - lo <= 1 THEN lo
    ELSE LET mid == (lo + hi) \div 2
         IN  IF mid * mid <= n THEN SqrtSearch(n, mid, hi)
                               ELSE SqrtSearch(n, lo, mid)

\* Math.sqrt, rounded down to a fixed-point unit
Sqrt(n) == SqrtSearch(n, 0, 46341)

Cos(a) == CosTab[(a % AngleUnits) + 1]
Sin(a) == Cos(a + 27)

\* r * Math.cos(angle) and r * Math.sin(angle)
MulCos(r, a) == Quot(r * Cos(a), TrigScale)
MulSin(r, a) == Quot(r * Sin(a), TrigScale)

Vec(x, y)  == [x |-> x, y |-> y]
VZero      == Vec(0, 0)
VAdd(u, v) == Vec(u.x + v.x, u.y + v.y)
VSub(u, v) == Vec(u.x - v.x, u.y - v.y)

RECURSIVE VSum(_)
VSum(s) == IF s = <<>> THEN VZero ELSE VAdd(Head(s), VSum(Tail(s)))

\* String.prototype.includes
Includes(s, t) ==
    \E i \in 1..(Len(s) - Len(t) + 1) : SubSeq(s, i, i + Len(t) - 1) = t

(***************************************************************************)
(* bgpHierarchicalLayout: constants (utils.js 86-95)                       *)
(***************************************************************************)
asY                      == (Height * 15) \div 100
routerYRange             == <<(Height * 25) \div 100, (Height * 45) \div 100>>
routerRadius             == 120 * Pix
interfaceRadius          == 60 * Pix
repulsionForce           == 1000
attractionForce          == <<3, 10>>      \* 0.3
interfaceAttractionForce == <<15, 10>>     \* 1.5
interfaceRepulsionForce  == 2500
maxInterfaceDistance     == 70 * Pix
damping                  == <<9, 10>>      \* 0.9
maxIterations            == IterBudget

(***************************************************************************)
(* Node classes as the layout filters them                                 *)
(***************************************************************************)
IsAS(n)        == n.parent = "" /\ n.type = ""
IsRouter(n)    == n.parent # "" /\ n.type = ""
IsInterface(n) == n.type = "interface"

Ids(nodes)    == {nodes[i].id : i \in 1..Len(nodes)}
Order(nodes)  == [i \in 1..Len(nodes) |-> nodes[i].id]
IndexOf(seq, id) == CHOOSE i \in 1..Len(seq) : seq[i].id = id

asNodes(nodes)        == SelectSeq(nodes, IsAS)
routerNodes(nodes)    == SelectSeq(nodes, IsRouter)
interfaceNodes(nodes) == SelectSeq(nodes, IsInterface)

\* asToRouters[asId] and routerToInterfaces[routerId]
asToRouters(nodes, asId) ==
    SelectSeq(routerNodes(nodes), LAMBDA n : n.parent = asId)
routerToInterfaces(nodes, routerId) ==
    SelectSeq(interfaceNodes(nodes), LAMBDA n : n.router = routerId)

AsKeys(nodes)     == {n.parent : n \in {nodes[i] : i \in {j \in 1..Len(nodes) : IsRouter(nodes[j])}}}
RouterKeys(nodes) == {n.router : n \in {nodes[i] : i \in {j \in 1..Len(nodes) : IsInterface(nodes[j])}}}

\* (2 * Math.PI / n) * index
AngleStep(n, index) == (AngleUnits \div n) * index

(***************************************************************************)
(* nodeMap construction (utils.js 97-108)                                  *)
(***************************************************************************)
NodeMapEntry(n) ==
    [pos    |-> Vec(n.pos.x, n.pos.y),
     vel    |-> VZero,
     type   |-> IF n.type # "" THEN n.type
                ELSE IF n.parent # "" /\ n.router = "" THEN "router" ELSE "as",
     router |-> n.router,
     parent |-> n.parent,
     locked |-> n.locked]

BuildNodeMap(nodes) ==
    [id \in Ids(nodes) |-> NodeMapEntry(nodes[IndexOf(nodes, id)])]

(***************************************************************************)
(* Seeding (utils.js 110-159)                                              *)
(***************************************************************************)
\* variant: an AS that already has a position is not seeded again
SeedASKeepsPlaced(nodes, nm) == nm

SeedAS(nodes, nm) ==
    LET as        == asNodes(nodes)
        numAS     == Len(as)
        asSpacing == Min(400 * Pix, Width \div (numAS + 1))
    IN  [id \in DOMAIN nm |->
            IF (\E i \in 1..numAS : as[i].id = id) /\ ~nm[id].locked
            THEN LET index == IndexOf(as, id) - 1
                 IN  [nm[id] EXCEPT !.pos =
                        Vec(Width \div 2 - Quot((numAS - 1) * asSpacing, 2)
                              + index * asSpacing,
                            asY)]
            ELSE nm[id]]

\* variant: the seeding of routers does not look at the locked flag
SeedRoutersIgnoringLock(nodes, nm, baseAngle) ==
    LET routerY == (routerYRange[1] + routerYRange[2]) \div 2
    IN  [id \in DOMAIN nm |->
            IF \E i \in 1..Len(nodes) : nodes[i].id = id /\ IsRouter(nodes[i])
            THEN LET asId    == nm[id].parent
                     routers == asToRouters(nodes, asId)
                     index   == IndexOf(routers, id) - 1
                     angle   == baseAngle[asId] + AngleStep(Len(routers), index)
                     asPos   == nm[asId].pos
                 IN  [nm[id] EXCEPT !.pos =
                        Vec(asPos.x + MulCos(routerRadius, angle),
                            routerY + MulSin(routerRadius \div 2, angle))]
            ELSE nm[id]]

SeedRouters(nodes, nm, baseAngle) ==
    LET routerY == (routerYRange[1] + routerYRange[2]) \div 2
    IN  [id \in DOMAIN nm |->
            IF (\E i \in 1..Len(nodes) : nodes[i].id = id /\ IsRouter(nodes[i]))
               /\ ~nm[id].locked
            THEN LET asId    == nm[id].parent
                     routers == asToRouters(nodes, asId)
                     index   == IndexOf(routers, id) - 1
                     angle   == baseAngle[asId] + AngleStep(Len(routers), index)
                     asPos   == nm[asId].pos
                 IN  [nm[id] EXCEPT !.pos =
                        Vec(asPos.x + MulCos(routerRadius, angle),
                            routerY + MulSin(routerRadius \div 2, angle))]
            ELSE nm[id]]

SeedInterfaces(nodes, nm, baseAngle) ==
    [id \in DOMAIN nm |->
        IF (\E i \in 1..Len(nodes) : nodes[i].id = id /\ IsInterface(nodes[i]))
           /\ ~nm[id].locked
        THEN LET routerId   == nodes[IndexOf(nodes, id)].router
                 interfaces == routerToInterfaces(nodes, routerId)
                 index      == IndexOf(interfaces, id) - 1
                 angle      == baseAngle[routerId] + AngleStep(Len(interfaces), index)
                 routerPos  == nm[routerId].pos
             IN  [nm[id] EXCEPT !.pos =
                    Vec(routerPos.x + MulCos(interfaceRadius, angle),
                        routerPos.y + MulSin(interfaceRadius, angle))]
        ELSE nm[id]]

Seed(nodes, d) ==
    SeedInterfaces(nodes,
        SeedRouters(nodes, SeedAS(nodes, BuildNodeMap(nodes)), d.seedAS),
        d.seedRouter)

(***************************************************************************)
(* Force iteration (utils.js 183-252)                                      *)
(***************************************************************************)
\* Math.max(Math.sqrt(dx * dx + dy * dy), 1)
FlooredDistance(dx, dy) == Max(Sqrt(dx * dx + dy * dy), Pix)

\* (dx / distance) * (force / (distance * distance)), in fixed-point units
RepulsionComponent(dx, distance, force) ==
    Quot(dx * ((force * Pix * Pix * Pix) \div distance), distance * distance)

\* the (fx, fy) that the pair loop computes for the ordered pair (id1, id2)
RepulsionPair(nm, id1, id2) ==
    IF id1 = id2 \/ nm[id1].locked \/ nm[id2].locked THEN VZero
    ELSE LET n1 == nm[id1]
             n2 == nm[id2]
             dx == n1.pos.x - n2.pos.x
             dy == n1.pos.y - n2.pos.y
             distance == FlooredDistance(dx, dy)
             force == IF n1.type = "interface" /\ n2.type = "interface"
                      THEN interfaceRepulsionForce ELSE repulsionForce
         IN  Vec(RepulsionComponent(dx, distance, force),
                 RepulsionComponent(dy, distance, force))

\* velocity change of id over the whole double loop: n1.vel += f, n2.vel -= f
RepulsionOn(order, nm, id) ==
    VSub(VSum([j \in 1..Len(order) |-> RepulsionPair(nm, id, order[j])]),
         VSum([j \in 1..Len(order) |-> RepulsionPair(nm, order[j], id)]))

\* (dx / distance) * (k * distance) for a spring constant k = <<num, den>>
SpringComponent(dx, distance, k) ==
    Quot(dx * Quot(k[1] * distance, k[2]), distance)

\* the (fx, fy) of one edge, zero when the edge is skipped
AttractionEdge(nm, e) ==
    IF e.source \notin DOMAIN nm \/ e.target \notin DOMAIN nm THEN VZero
    ELSE IF nm[e.source].locked \/ nm[e.target].locked THEN VZero
    ELSE LET dx == nm[e.target].pos.x - nm[e.source].pos.x
             dy == nm[e.target].pos.y - nm[e.source].pos.y
             distance == FlooredDistance(dx, dy)
         IN  Vec(SpringComponent(dx, distance, attractionForce),
                 SpringComponent(dy, distance, attractionForce))

AttractionOn(edges, nm, id) ==
    VSub(VSum([j \in 1..Len(edges) |->
                 IF edges[j].source = id THEN AttractionEdge(nm, edges[j]) ELSE VZero]),
         VSum([j \in 1..Len(edges) |->
                 IF edges[j].target = id THEN AttractionEdge(nm, edges[j]) ELSE VZero]))

\* pull of an interface toward its router (utils.js 218-230)
ContainmentOn(nodes, nm, id) ==
    LET n == nodes[IndexOf(nodes, id)]
    IN  IF ~IsInterface(n) \/ n.router \notin DOMAIN nm \/ nm[id].locked THEN VZero
        ELSE LET dx == nm[n.router].pos.x - nm[id].pos.x
                 dy == nm[n.router].pos.y - nm[id].pos.y
                 distance == FlooredDistance(dx, dy)
             IN  Vec(SpringComponent(dx, distance, interfaceAttractionForce),
                     SpringComponent(dy, distance, interfaceAttractionForce))

\* the three force loops of one iteration: velocities only
ApplyForces(nodes, edges, nm) ==
    [id \in DOMAIN nm |->
        [nm[id] EXCEPT !.vel =
            VAdd(VAdd(VAdd(nm[id].vel, RepulsionOn(Order(nodes), nm, id)),
                      AttractionOn(edges, nm, id)),
                 ContainmentOn(nodes, nm, id))]]

Damp(v) == Quot(v * damping[1], damping[2])

\* containment clamp of one interface against the current router position
Clamp(pos, routerPos) ==
    LET dx == pos.x - routerPos.x
        dy == pos.y - routerPos.y
        distance == Sqrt(dx * dx + dy * dy)
    IN  IF distance > maxInterfaceDistance
        THEN Vec(routerPos.x + Quot(dx * maxInterfaceDistance, distance),
                 routerPos.y + Quot(dy * maxInterfaceDistance, distance))
        ELSE pos

\* body of the integration loop for one id (utils.js 232-251)
IntegrateNode(nm, id) ==
    LET node == nm[id]
    IN  IF node.locked THEN nm
        ELSE LET moved == Vec(node.pos.x + Damp(node.vel.x),
                              node.pos.y + Damp(node.vel.y))
                 vel   == Vec(Damp(node.vel.x), Damp(node.vel.y))
                 pos   == IF node.type = "interface" /\ node.router # ""
                          THEN Clamp(moved, nm[node.router].pos)
                          ELSE moved
             IN  [nm EXCEPT ![id] = [node EXCEPT !.pos = pos, !.vel = vel]]

RECURSIVE Integrate(_, _, _)
Integrate(order, nm, i) ==
    IF i > Len(order) THEN nm
    ELSE Integrate(order, IntegrateNode(nm, order[i]), i + 1)

(***************************************************************************)
(* Crossing reduction (utils.js 254-291)                                   *)
(***************************************************************************)
Count(edges, Touches(_)) == Len(SelectSeq(edges, Touches))

routerConnections(edges, r) ==
    Count(edges, LAMBDA e : Includes(e.source, r.id) \/ Includes(e.target, r.id))

interfaceConnections(edges, intf) ==
    Count(edges, LAMBDA e : e.source = intf.id \/ e.target = intf.id)

\* Array.prototype.sort((a, b) => b.connections - a.connections): stable
\* variant: the comparator is a.connections - b.connections
RECURSIVE InsertAsc(_, _)
InsertAsc(sorted, item) ==
    IF sorted = <<>> THEN <<item>>
    ELSE IF Head(sorted).connections <= item.connections
         THEN <<Head(sorted)>> \o InsertAsc(Tail(sorted), item)
         ELSE <<item>> \o sorted

RECURSIVE InsertDesc(_, _)
InsertDesc(sorted, item) ==
    IF sorted = <<>> THEN <<item>>
    ELSE IF Head(sorted).connections >= item.connections
         THEN <<Head(sorted)>> \o InsertDesc(Tail(sorted), item)
         ELSE <<item>> \o sorted

RECURSIVE SortDesc(_, _)
SortDesc(items, i) ==
    IF i = 0 THEN <<>> ELSE InsertDesc(SortDesc(items, i - 1), items[i])

routerConnectivity(nodes, edges, asId) ==
    LET routers == asToRouters(nodes, asId)
        items   == [i \in 1..Len(routers) |->
                      [id |-> routers[i].id,
                       connections |-> routerConnections(edges, routers[i])]]
    IN  SortDesc(items, Len(items))

interfaceConnectivity(nodes, edges, routerId) ==
    LET interfaces == routerToInterfaces(nodes, routerId)
        items      == [i \in 1..Len(interfaces) |->
                         [id |-> interfaces[i].id,
                          connections |-> interfaceConnections(edges, interfaces[i])]]
    IN  SortDesc(items, Len(items))

\* index of every router in its AS and of every interface in its router
ReorderSlots(nodes, edges) ==
    [id \in {n.id : n \in {nodes[i] : i \in {j \in 1..Len(nodes) : ~IsAS(nodes[j])}}} |->
        LET n == nodes[IndexOf(nodes, id)]
        IN  IF IsRouter(n)
            THEN IndexOf(routerConnectivity(nodes, edges, n.parent), id) - 1
            ELSE IndexOf(interfaceConnectivity(nodes, edges, n.router), id) - 1]

ReorderRouters(nodes, edges, nm, baseAngle) ==
    [id \in DOMAIN nm |->
        IF (\E i \in 1..Len(nodes) : nodes[i].id = id /\ IsRouter(nodes[i]))
           /\ ~nm[id].locked
        THEN LET asId  == nm[id].parent
                 index == ReorderSlots(nodes, edges)[id]
                 angle == baseAngle[asId]
                            + AngleStep(Len(asToRouters(nodes, asId)), index)
                 asPos == nm[asId].pos
             IN  [nm[id] EXCEPT !.pos =
                    Vec(asPos.x + MulCos(routerRadius, angle),
                        routerYRange[1]
                          + MulSin(routerYRange[2] - routerYRange[1], angle))]
        ELSE nm[id]]

\* variant: interfaces are redistributed on the routers' radius
ReorderInterfacesAtRouterRadius(nodes, edges, nm, baseAngle) ==
    [id \in DOMAIN nm |->
        IF (\E i \in 1..Len(nodes) : nodes[i].id = id /\ IsInterface(nodes[i]))
           /\ ~nm[id].locked
        THEN LET routerId  == nodes[IndexOf(nodes, id)].router
                 index     == IndexOf(interfaceConnectivity(nodes, edges, routerId), id) - 1
                 angle     == baseAngle[routerId]
                                + AngleStep(Len(routerToInterfaces(nodes, routerId)), index)
                 routerPos == nm[routerId].pos
             IN  [nm[id] EXCEPT !.pos =
                    Vec(routerPos.x + MulCos(routerRadius, angle),
                        routerPos.y + MulSin(routerRadius, angle))]
        ELSE nm[id]]

ReorderInterfaces(nodes, edges, nm, baseAngle) ==
    [id \in DOMAIN nm |->
        IF (\E i \in 1..Len(nodes) : nodes[i].id = id /\ IsInterface(nodes[i]))
           /\ ~nm[id].locked
        THEN LET routerId  == nodes[IndexOf(nodes, id)].router
                 index     == ReorderSlots(nodes, edges)[id]
                 angle     == baseAngle[routerId]
                                + AngleStep(Len(routerToInterfaces(nodes, routerId)), index)
                 routerPos == nm[routerId].pos
             IN  [nm[id] EXCEPT !.pos =
                    Vec(routerPos.x + MulCos(interfaceRadius, angle),
                        routerPos.y + MulSin(interfaceRadius, angle))]
        ELSE nm[id]]

reorderToMinimizeCrossings(nodes, edges, nm, d) ==
    ReorderInterfaces(nodes, edges,
        ReorderRouters(nodes, edges, nm, d.reorderAS), d.reorderRouter)

\* cy.nodes().animate({position: nodeMap[node.id()].pos}) (utils.js 293-300)
CommitPositions(nodes, nm) ==
    [i \in 1..Len(nodes) |-> [nodes[i] EXCEPT !.pos = nm[nodes[i].id].pos]]

(***************************************************************************)
(* The graph held by cy after a load: one AS, two routers, three           *)
(* interfaces; edges as transformEdges and addHierarchicalEdges build them *)
(***************************************************************************)
Node(id, type, parent, router, x, y) ==
    [id |-> id, type |-> type, parent |-> parent, router |-> router,
     locked |-> FALSE, pos |-> Vec(x * Pix, y * Pix)]
Edge(source, target, weight, type) ==
    [source |-> source, target |-> target, weight |-> weight, type |-> type]

LoadedNodes ==
    << Node("AS5", "", "", "", 200, 350),
       Node("R14", "", "AS5", "", 350, 350),
       Node("R13", "", "AS5", "", 50, 350),
       Node("R14_eth0", "interface", "AS5", "R14", 400, 350),
       Node("R14_eth1", "interface", "AS5", "R14", 300, 350),
       Node("R13_eth0", "interface", "AS5", "R13", 90, 350) >>

LoadedEdges ==
    << Edge("R14_eth1", "R13_eth0", "192.168.18.0/30", ""),
       Edge("AS5", "R14", "", "hierarchical"),
       Edge("AS5", "R13", "", "hierarchical"),
       Edge("R14", "R14_eth0", "", "router-interface"),
       Edge("R14", "R14_eth1", "", "router-interface"),
       Edge("R13", "R13_eth0", "", "router-interface") >>

\* drag gestures explored: which nodes are dragged and where they are dropped
DraggedNodes == {"AS5", "R14", "R14_eth0"}
DragTargets  == {Vec(100 * Pix, 500 * Pix)}

NoMap   == << >>
NoDraws == [seedAS |-> << >>, seedRouter |-> << >>,
            reorderAS |-> << >>, reorderRouter |-> << >>]

PositionsOf(nodes) == [id \in Ids(nodes) |-> nodes[IndexOf(nodes, id)].pos]

\* no document is being validated or transformed
NoData  == [nodes |-> << >>, edges |-> << >>, edgesIsArray |-> TRUE]
NoElements == [nodes |-> << >>, edges |-> << >>]
TransformIdle ==
    /\ interfaceNodeToRouter = << >>
    /\ elements = NoElements
    /\ stage = "idle"
NoSaved == [positions |-> << >>, lockedNodes |-> {}]
NoSpacings == [spacing |-> 0, minSpacing |-> 0]
LoadIdle == savedData = NoSaved /\ spacings = NoSpacings
NoLoop == [active |-> FALSE, i |-> 0, newIndex |-> 0]
SliderIdle ==
    /\ eventIndex = 0
    /\ inputLoop = NoLoop
    /\ restores = << >>
EnvIdle ==
    /\ graphData = NoData
    /\ outcome = "pending"
    /\ warnings = << >>
    /\ TransformIdle
    /\ LoadIdle
    /\ SliderIdle

(***************************************************************************)
(* Actions of the layout engine                                            *)
(***************************************************************************)
LayoutInit ==
    /\ cyNodes = LoadedNodes
    /\ cyEdges = LoadedEdges
    /\ pc = "idle"
    /\ nodeMap = NoMap
    /\ iter = 0
    /\ draws = NoDraws
    /\ slotOf = << >>
    /\ lastDraws = NoDraws
    /\ drags = 0
    /\ EnvIdle

\* cy.nodes().on('drag'): the node follows the pointer and gets data.locked
Drag ==
    /\ pc = "idle"
    /\ drags < MaxDrags
    /\ \E i \in 1..Len(cyNodes), target \in DragTargets :
          /\ cyNodes[i].id \in DraggedNodes
          /\ cyNodes' = [cyNodes EXCEPT ![i].pos = target, ![i].locked = TRUE]
    /\ drags' = drags + 1
    /\ lastDraws' = NoDraws
    /\ UNCHANGED <<cyEdges, pc, nodeMap, iter, draws, slotOf>>
    /\ UNCHANGED envVars

\* entry of bgpHierarchicalLayout up to the force loop: nodeMap and seeding
BeginLayoutOn(nodes) ==
    /\ \E sAS \in [AsKeys(nodes) -> LayoutAngles],
          sR  \in [RouterKeys(nodes) -> LayoutAngles] :
          /\ draws' = [NoDraws EXCEPT !.seedAS = sAS, !.seedRouter = sR]
          /\ nodeMap' = Seed(nodes, draws')
    /\ iter' = 0
    /\ slotOf' = << >>
    /\ pc' = "forces"

BeginLayout == BeginLayoutOn(cyNodes)

\* a handler calls bgpHierarchicalLayout on the nodes and edges of cy
InvokeLayout ==
    /\ pc = "idle"
    /\ BeginLayout
    /\ UNCHANGED <<cyNodes, cyEdges, lastDraws, drags>>
    /\ UNCHANGED envVars

ForcesStep ==
    /\ pc = "forces"
    /\ iter < maxIterations
    /\ nodeMap' = ApplyForces(cyNodes, cyEdges, nodeMap)
    /\ pc' = "integrate"
    /\ UNCHANGED <<cyNodes, cyEdges, iter, draws, slotOf, lastDraws, drags>>
    /\ UNCHANGED envVars

IntegrateStep ==
    /\ pc = "integrate"
    /\ nodeMap' = Integrate(Order(cyNodes), nodeMap, 1)
    /\ iter' = iter + 1
    /\ pc' = "forces"
    /\ UNCHANGED <<cyNodes, cyEdges, draws, slotOf, lastDraws, drags>>
    /\ UNCHANGED envVars

ReorderStep ==
    /\ pc = "forces"
    /\ iter >= maxIterations
    /\ \E rAS \in [AsKeys(cyNodes) -> LayoutAngles],
          rR  \in [RouterKeys(cyNodes) -> LayoutAngles] :
          /\ draws' = [draws EXCEPT !.reorderAS = rAS, !.reorderRouter = rR]
          /\ nodeMap' = reorderToMinimizeCrossings(cyNodes, cyEdges, nodeMap, draws')
    /\ slotOf' = ReorderSlots(cyNodes, cyEdges)
    /\ pc' = "commit"
    /\ UNCHANGED <<cyNodes, cyEdges, iter, lastDraws, drags>>
    /\ UNCHANGED envVars

CommitStep ==
    /\ pc = "commit"
    /\ cyNodes' = CommitPositions(cyNodes, nodeMap)
    /\ lastDraws' = draws
    /\ draws' = NoDraws
    /\ nodeMap' = NoMap
    /\ iter' = 0
    /\ pc' = "idle"
    /\ UNCHANGED <<cyEdges, slotOf, drags>>
    /\ UNCHANGED envVars

LayoutNext ==
    \/ Drag
    \/ InvokeLayout
    \/ ForcesStep
    \/ IntegrateStep
    \/ ReorderStep
    \/ CommitStep

SpecLayout == LayoutInit /\ [][LayoutNext]_vars

(***************************************************************************)
(* Properties of the layout engine                                         *)
(***************************************************************************)
Epsilon == 10    \* "a small epsilon": one pixel

LayoutReturned == pc = "idle" /\ lastDraws # NoDraws

DistSq(p, q) == (p.x - q.x) * (p.x - q.x) + (p.y - q.y) * (p.y - q.y)
Near(p, q)   == DistSq(p, q) <= Epsilon * Epsilon

InterfaceWithinBound(nodes, i) ==
    DistSq(nodes[i].pos, nodes[IndexOf(nodes, nodes[i].router)].pos)
        <= maxInterfaceDistance * maxInterfaceDistance

\* C1 as stated: after bgpHierarchicalLayout returns, every interface whose
\* router is in the node set lies within maxInterfaceDistance of its router,
\* whatever the locked flags are.
C1_AllInterfacesWithinBound ==
    LayoutReturned =>
        \A i \in 1..Len(cyNodes) :
            (IsInterface(cyNodes[i]) /\ cyNodes[i].router \in Ids(cyNodes))
                => InterfaceWithinBound(cyNodes, i)

\* C1 amended: after bgpHierarchicalLayout returns, every interface that is not
\* locked and whose router is in the node set lies within maxInterfaceDistance
\* of its router, whether the router is locked or not.
C1_UnlockedInterfacesWithinBound ==
    LayoutReturned =>
        \A i \in 1..Len(cyNodes) :
            (IsInterface(cyNodes[i]) /\ ~cyNodes[i].locked
               /\ cyNodes[i].router \in Ids(cyNodes))
                => InterfaceWithinBound(cyNodes, i)

C1_Witness ==
    /\ LayoutReturned
    /\ \E i \in 1..Len(cyNodes) :
          /\ IsInterface(cyNodes[i]) /\ ~cyNodes[i].locked
          /\ cyNodes[IndexOf(cyNodes, cyNodes[i].router)].locked
          /\ InterfaceWithinBound(cyNodes, i)

\* C2: a node whose data.locked is true when the layout is invoked has, at
\* every step of the invocation and at its commit, the position it had at the
\* start.
C2_LockedNodesKeepPosition ==
    [][pc # "idle" =>
          \A i \in 1..Len(cyNodes) :
              cyNodes[i].locked =>
                 /\ nodeMap[cyNodes[i].id].pos = cyNodes[i].pos
                 /\ cyNodes'[i].pos = cyNodes[i].pos]_layoutVars

C2_Witness ==
    /\ LayoutReturned
    /\ \E i \in 1..Len(cyNodes) :
          cyNodes[i].locked /\ cyNodes[i].pos \in DragTargets
    /\ \E i \in 1..Len(cyNodes) :
          ~cyNodes[i].locked /\ cyNodes[i].pos # LoadedNodes[i].pos

Degree(edges, id) ==
    Cardinality({j \in 1..Len(edges) : edges[j].source = id \/ edges[j].target = id})

\* C5: in the crossing-reduction pass, of two interfaces of one router the one
\* with strictly more edges touching it gets the smaller slot index.
C5_InterfacesByDescendingDegree ==
    pc = "commit" =>
        \A i, j \in 1..Len(cyNodes) :
            (/\ IsInterface(cyNodes[i]) /\ IsInterface(cyNodes[j])
             /\ cyNodes[i].router = cyNodes[j].router
             /\ Degree(cyEdges, cyNodes[i].id) > Degree(cyEdges, cyNodes[j].id))
                => slotOf[cyNodes[i].id] < slotOf[cyNodes[j].id]

C5_Witness ==
    /\ pc = "commit"
    /\ Degree(cyEdges, "R14_eth1") > Degree(cyEdges, "R14_eth0")
    /\ slotOf["R14_eth1"] = 0
    /\ slotOf["R14_eth0"] = 1

\* what (id1, id2) and an edge contribute when a locked node is an anchor
AnchorRepulsionPair(nm, id1, id2) ==
    RepulsionPair([nm EXCEPT ![id1].locked = FALSE, ![id2].locked = FALSE], id1, id2)
AnchorAttractionEdge(nm, e) ==
    AttractionEdge([id \in DOMAIN nm |-> [nm[id] EXCEPT !.locked = FALSE]], e)

AnchoredVelocity(nodes, edges, nm, id) ==
    LET order == Order(nodes)
        rep == VSub(VSum([j \in 1..Len(order) |-> AnchorRepulsionPair(nm, id, order[j])]),
                    VSum([j \in 1..Len(order) |-> AnchorRepulsionPair(nm, order[j], id)]))
        att == VSub(VSum([j \in 1..Len(edges) |->
                            IF edges[j].source = id
                            THEN AnchorAttractionEdge(nm, edges[j]) ELSE VZero]),
                    VSum([j \in 1..Len(edges) |->
                            IF edges[j].target = id
                            THEN AnchorAttractionEdge(nm, edges[j]) ELSE VZero]))
    IN  VAdd(VAdd(VAdd(nm[id].vel, rep), att), ContainmentOn(nodes, nm, id))

\* C8: in each force iteration every unlocked node's velocity receives the
\* repulsion of every other node, locked ones included, and the attraction of
\* every edge at it, edges to locked nodes included; locked nodes do not move.
C8_LockedNodesExertForces ==
    [][(pc = "forces" /\ pc' = "integrate") =>
          \A id \in DOMAIN nodeMap :
              IF nodeMap[id].locked
              THEN nodeMap'[id].pos = nodeMap[id].pos
              ELSE nodeMap'[id].vel = AnchoredVelocity(cyNodes, cyEdges, nodeMap, id)]_layoutVars


(***************************************************************************)
(* Strings and numbers of the validators: String.prototype.split,          *)
(* parseInt(s, 10), Number(s), Math.min / Math.max and template literals   *)
(***************************************************************************)
Digits == "0123456789"
CharAt(s, i) == SubSeq(s, i, i)
IsDigit(c) == \E k \in 1..10 : CharAt(Digits, k) = c
DigitValue(c) == (CHOOSE k \in 1..10 : CharAt(Digits, k) = c) - 1

\* a JavaScript number: NaN or an integer value
NaN == [nan |-> TRUE, val |-> 0]
Num(v) == [nan |-> FALSE, val |-> v]

RECURSIVE SplitFrom(_, _, _, _)
SplitFrom(s, sep, start, i) ==
    IF i > Len(s) THEN << SubSeq(s, start, Len(s)) >>
    ELSE IF CharAt(s, i) = sep
         THEN << SubSeq(s, start, i - 1) >> \o SplitFrom(s, sep, i + 1, i + 1)
         ELSE SplitFrom(s, sep, start, i + 1)
Split(s, sep) == SplitFrom(s, sep, 1, 1)

\* the digits read from position i on, and where they end
RECURSIVE DigitsEnd(_, _)
DigitsEnd(s, i) ==
    IF i <= Len(s) /\ IsDigit(CharAt(s, i)) THEN DigitsEnd(s, i + 1) ELSE i
RECURSIVE DigitsValue(_, _, _)
DigitsValue(s, i, acc) ==
    IF i <= Len(s) /\ IsDigit(CharAt(s, i))
    THEN DigitsValue(s, i + 1, acc * 10 + DigitValue(CharAt(s, i)))
    ELSE acc
RECURSIVE SkipBlanks(_, _)
SkipBlanks(s, i) ==
    IF i <= Len(s) /\ CharAt(s, i) = " " THEN SkipBlanks(s, i + 1) ELSE i

\* parseInt(s, 10): leading blanks, a sign, then the longest run of digits
parseInt(s) ==
    LET b == SkipBlanks(s, 1)
        signed == b <= Len(s) /\ CharAt(s, b) \in {"-", "+"}
        d == IF signed THEN b + 1 ELSE b
        v == DigitsValue(s, d, 0)
    IN  IF DigitsEnd(s, d) = d THEN NaN
        ELSE IF signed /\ CharAt(s, b) = "-" THEN Num(-v) ELSE Num(v)

\* Number(s) as Math.min applies it to an id: "" is 0, a run of digits its
\* value, anything else NaN
ToNumber(s) ==
    IF s = "" THEN Num(0)
    ELSE IF DigitsEnd(s, 1) = Len(s) + 1 THEN Num(DigitsValue(s, 1, 0))
    ELSE NaN
MathMin(a, b) == IF a.nan \/ b.nan THEN NaN ELSE Num(Min(a.val, b.val))
MathMax(a, b) == IF a.nan \/ b.nan THEN NaN ELSE Num(Max(a.val, b.val))
NumberToString(v) == IF v.nan THEN "NaN" ELSE ToString(v.val)
\* `${Math.min(a, b)}-${Math.max(a, b)}`
PairSignature(a, b) ==
    NumberToString(MathMin(ToNumber(a), ToNumber(b))) \o "-" \o
    NumberToString(MathMax(ToNumber(a), ToNumber(b)))

is_valid_ip(ip) ==
    IF ip = "" THEN FALSE
    ELSE LET octets == Split(ip, ".") IN
         /\ Len(octets) = 4
         /\ \A i \in 1..4 :
               LET num == parseInt(octets[i]) IN
               ~num.nan /\ num.val >= 0 /\ num.val <= 255

is_valid_subnet(subnet) ==
    IF subnet = "" THEN FALSE
    ELSE LET num == parseInt(subnet) IN
         ~num.nan /\ num.val >= 0 /\ num.val <= 32

(***************************************************************************)
(* The input document: nodes [id, parent, interfaces] and edges [source,   *)
(* target, sourceInterface, targetInterface, weight].  interfaces is an    *)
(* object (a sequence of name / ip entries) or undefined.                  *)
(***************************************************************************)
NoInterfaces == [defined |-> FALSE, entries |-> << >>]
Interfaces(entries) == [defined |-> TRUE, entries |-> entries]
Entry(name, ip) == [name |-> name, ip |-> ip]
DocNode(id, parent, interfaces) ==
    [id |-> id, parent |-> parent, interfaces |-> interfaces]
DocEdge(source, sourceInterface, target, targetInterface, weight) ==
    [source |-> source, target |-> target, sourceInterface |-> sourceInterface,
     targetInterface |-> targetInterface, weight |-> weight]

\* interfaces[name]; a missing key reads as the empty (falsy) value
InterfaceValue(interfaces, name) ==
    LET hits == SelectSeq(interfaces.entries, LAMBDA e : e.name = name)
    IN  IF hits = << >> THEN "" ELSE hits[Len(hits)].ip
\* data.nodes.find(n => n.data.id === id)
FindNode(nodes, id) == nodes[CHOOSE i \in 1..Len(nodes) :
                               /\ nodes[i].id = id
                               /\ \A j \in 1..(i - 1) : nodes[j].id # id]

(***************************************************************************)
(* validateGraphData of data.js: the Error thrown, or "" when none         *)
(***************************************************************************)
InterfaceError(id, ip_str) ==
    LET parts == Split(ip_str, "/") IN
    IF Len(parts) # 2 THEN "IP/Mascara mal formada: " \o ip_str
    ELSE IF ~is_valid_ip(parts[1])
         THEN "Direccion IP invalida en nodo " \o id \o ": " \o parts[1]
    ELSE IF ~is_valid_subnet(parts[2])
         THEN "Mascara de subred invalida en nodo " \o id \o ": " \o parts[2]
    ELSE ""

RECURSIVE InterfacesError(_, _, _)
InterfacesError(id, entries, i) ==
    IF i > Len(entries) THEN ""
    ELSE LET e == InterfaceError(id, entries[i].ip) IN
         IF e # "" THEN e ELSE InterfacesError(id, entries, i + 1)

\* variant: the id is not looked up in the set of ids seen so far
NodeErrorWithoutDuplicateCheck(node, nodeIds) ==
    IF node.id = "" THEN "Nodo sin ID"
    ELSE IF node.interfaces.defined
         THEN InterfacesError(node.id, node.interfaces.entries, 1)
    ELSE ""

NodeError(node, nodeIds) ==
    IF node.id = "" THEN "Nodo sin ID"
    ELSE IF node.id \in nodeIds THEN "ID duplicado: " \o node.id
    ELSE IF node.interfaces.defined
         THEN InterfacesError(node.id, node.interfaces.entries, 1)
    ELSE ""

RECURSIVE NodesError(_, _, _)
NodesError(nodes, i, nodeIds) ==
    IF i > Len(nodes) THEN ""
    ELSE LET e == NodeError(nodes[i], nodeIds) IN
         IF e # "" THEN e
         ELSE NodesError(nodes, i + 1, nodeIds \cup {nodes[i].id})

EdgeError(nodes, edge) ==
    IF edge.source \notin Ids(nodes) \/ edge.target \notin Ids(nodes)
    THEN "Enlace invalido: " \o edge.source \o " o " \o edge.target \o " no existen"
    ELSE LET sourceNode == FindNode(nodes, edge.source)
             targetNode == FindNode(nodes, edge.target)
         IN  IF /\ sourceNode.interfaces.defined
                /\ InterfaceValue(sourceNode.interfaces, edge.sourceInterface) = ""
             THEN "Interfaz " \o edge.sourceInterface \o " no encontrada en " \o edge.source
             ELSE IF /\ targetNode.interfaces.defined
                     /\ InterfaceValue(targetNode.interfaces, edge.targetInterface) = ""
             THEN "Interfaz " \o edge.targetInterface \o " no encontrada en " \o edge.target
             ELSE ""

\* data.edges.forEach: the Error of the first bad edge, the duplicate-link
\* warnings written before it
RECURSIVE EdgesResult(_, _, _, _, _)
EdgesResult(nodes, edges, i, edgeSignatures, warns) ==
    IF i > Len(edges) THEN [outcome |-> "valid", warnings |-> warns]
    ELSE LET e == EdgeError(nodes, edges[i])
             sig == PairSignature(edges[i].source, edges[i].target)
         IN  IF e # "" THEN [outcome |-> e, warnings |-> warns]
             ELSE EdgesResult(nodes, edges, i + 1, edgeSignatures \cup {sig},
                     IF sig \in edgeSignatures
                     THEN Append(warns, "Adv: Enlace duplicado entre "
                                   \o edges[i].source \o " y " \o edges[i].target)
                     ELSE warns)

validateGraphData(data) ==
    IF ~data.edgesIsArray
    THEN [outcome |-> "Formato de bgp_graph.json invalido", warnings |-> << >>]
    ELSE LET e == NodesError(data.nodes, 1, {}) IN
         IF e # "" THEN [outcome |-> e, warnings |-> << >>]
         ELSE EdgesResult(data.nodes, data.edges, 1, {}, << >>)

(***************************************************************************)
(* Validation of a document by validateGraphData of data.js                *)
(***************************************************************************)
MaxDocNodes == 3

\* the layout engine is at rest while a document is validated or transformed
LayoutIdle ==
    /\ cyNodes = << >>
    /\ cyEdges = << >>
    /\ pc = "idle"
    /\ nodeMap = NoMap
    /\ iter = 0
    /\ draws = NoDraws
    /\ slotOf = << >>
    /\ lastDraws = NoDraws
    /\ drags = 0

\* documents explored: ids missing, equal or distinct; interfaces absent,
\* well formed or with an octet out of range; edges absent, single, doubled,
\* or two between different pairs of nodes
DocIds == {"", "R1", "R2", "R3"}
DocInterfaces ==
    { NoInterfaces,
      Interfaces(<< Entry("eth0", "10.0.0.1/30") >>),
      Interfaces(<< Entry("eth0", "10.0.0.300/30") >>) }
DocNodes == {DocNode(id, "AS1", intfs) : id \in DocIds, intfs \in DocInterfaces}
DocNodeSeqs == UNION {[1..n -> DocNodes] : n \in 0..MaxDocNodes}
DocEdgeSeqs ==
    { << >>,
      << DocEdge("R1", "eth0", "R2", "eth0", "10.0.0.0/30") >>,
      << DocEdge("R1", "eth0", "R2", "eth0", "10.0.0.0/30"),
         DocEdge("R2", "eth0", "R1", "eth0", "10.0.0.0/30") >>,
      << DocEdge("R1", "eth0", "R2", "eth0", "10.0.0.0/30"),
         DocEdge("R2", "eth0", "R3", "eth0", "10.0.0.0/30") >> }

ValidateInit ==
    /\ graphData \in [nodes : DocNodeSeqs, edges : DocEdgeSeqs,
                      edgesIsArray : BOOLEAN]
    /\ outcome = "pending"
    /\ warnings = << >>
    /\ LayoutIdle
    /\ TransformIdle
    /\ LoadIdle
    /\ SliderIdle

\* initializeGraph calls validateGraphData(data) on the fetched document
Validate ==
    /\ outcome = "pending"
    /\ LET r == validateGraphData(graphData) IN
          /\ outcome' = r.outcome
          /\ warnings' = r.warnings
    /\ UNCHANGED <<graphData, layoutVars, transformVars, loadVars, sliderVars>>

ValidateNext == Validate

SpecValidate == ValidateInit /\ [][ValidateNext]_vars

HasDuplicateIds(nodes) ==
    \E i, j \in 1..Len(nodes) : i # j /\ nodes[i].id = nodes[j].id

\* C6: validateGraphData throws for every document in which two entries of
\* nodes[] carry the same id, whatever the rest of the document contains.
C6_DuplicateIdsRejected ==
    (outcome # "pending" /\ HasDuplicateIds(graphData.nodes)) => outcome # "valid"

\* a document whose only defect is the repeated id R1 has been rejected for it
C6_Witness ==
    /\ outcome = "ID duplicado: R1"
    /\ graphData.edgesIsArray
    /\ Len(graphData.nodes) = 3
    /\ \E i \in 1..3 : graphData.nodes[i].id = "R2"

\* the interface map of the node called id has the key name
DeclaresInterface(nodes, id, name) ==
    \E k \in 1..Len(FindNode(nodes, id).interfaces.entries) :
        FindNode(nodes, id).interfaces.entries[k].name = name

\* C14: validateGraphData throws for every edge whose sourceInterface is not
\* a key of the interface map of its source node or whose targetInterface is
\* not a key of the interface map of its target node; a node without an
\* interface map has no interfaces.
C14_UndeclaredInterfaceRejected ==
    outcome = "valid" =>
        \A i \in 1..Len(graphData.edges) :
            /\ DeclaresInterface(graphData.nodes, graphData.edges[i].source,
                                 graphData.edges[i].sourceInterface)
            /\ DeclaresInterface(graphData.nodes, graphData.edges[i].target,
                                 graphData.edges[i].targetInterface)

\* C16: whenever validateGraphData accepts a document, every node that
\* carries a parent references the id of an AS node (a node without parent)
\* of that document.
C16_ParentsAreASNodes ==
    outcome = "valid" =>
        \A i \in 1..Len(graphData.nodes) :
            graphData.nodes[i].parent # "" =>
                \E j \in 1..Len(graphData.nodes) :
                    /\ graphData.nodes[j].id = graphData.nodes[i].parent
                    /\ graphData.nodes[j].parent = ""

\* the edges that follow an edge between the same unordered pair of nodes
SamePair(e, f) == {e.source, e.target} = {f.source, f.target}
RepeatedEdges(edges) ==
    SelectSeq([i \in 1..Len(edges) |-> i],
              LAMBDA i : \E j \in 1..(i - 1) : SamePair(edges[j], edges[i]))

\* C19: validateGraphData writes the duplicate-link warning for an edge if
\* and only if an earlier edge of the document joins the same unordered pair
\* of nodes, whatever strings the node ids are.
C19_DuplicateEdgeWarningIffRepeated ==
    outcome = "valid" =>
        warnings = [k \in 1..Len(RepeatedEdges(graphData.edges)) |->
                       "Adv: Enlace duplicado entre "
                       \o graphData.edges[RepeatedEdges(graphData.edges)[k]].source
                       \o " y "
                       \o graphData.edges[RepeatedEdges(graphData.edges)[k]].target]

(***************************************************************************)
(* 32-bit integers of the bitwise operators <<, >>>, ~, & : a word is the  *)
(* sequence of its bits, bit 1 the least significant.  The operators take  *)
(* their operands modulo 2^32 and the shift count modulo 32.               *)
(***************************************************************************)
WordBits == 32
BitIndex == 1..WordBits
ZeroWord == [i \in BitIndex |-> 0]
OnesWord == [i \in BitIndex |-> 1]
BitNot(w) == [i \in BitIndex |-> 1 - w[i]]
BitAnd(a, b) == [i \in BitIndex |-> a[i] * b[i]]
ShiftLeft(w, k) ==
    LET c == k % WordBits IN [i \in BitIndex |-> IF i - c >= 1 THEN w[i - c] ELSE 0]
ShiftRightUnsigned(w, k) ==
    LET c == k % WordBits IN
    [i \in BitIndex |-> IF i + c <= WordBits THEN w[i + c] ELSE 0]
RECURSIVE CarryInto(_, _, _)
CarryInto(a, b, i) ==
    IF i = 1 THEN 0 ELSE (a[i - 1] + b[i - 1] + CarryInto(a, b, i - 1)) \div 2
Add32(a, b) == [i \in BitIndex |-> (a[i] + b[i] + CarryInto(a, b, i)) % 2]
\* ToInt32 of an integer below 2^31 in magnitude
WordOfNat(n) == [i \in BitIndex |-> IF i = WordBits THEN 0 ELSE (n \div 2^(i - 1)) % 2]
ToInt32(n) ==
    IF n >= 0 THEN WordOfNat(n)
    ELSE Add32(BitNot(WordOfNat(-n)), WordOfNat(1))
\* the value of the low eight bits: w & 0xFF
LowByte(w) ==
    w[1] + 2 * w[2] + 4 * w[3] + 8 * w[4] + 16 * w[5] + 32 * w[6] + 64 * w[7] + 128 * w[8]

\* a JavaScript number held as its residue modulo 2^32, or NaN
NaNWord == [nan |-> TRUE, bits |-> ZeroWord]
NumWord(w) == [nan |-> FALSE, bits |-> w]
\* ToInt32 of NaN is 0
WordToInt32(v) == IF v.nan THEN ZeroWord ELSE v.bits

(***************************************************************************)
(* ipToInt, getNetmask, getNetworkAddress of interactivity.js              *)
(***************************************************************************)
RECURSIVE ipToIntFrom(_, _, _)
ipToIntFrom(octets, i, acc) ==
    IF i > Len(octets) THEN acc
    ELSE LET n == parseInt(octets[i])
             shifted == ShiftLeft(WordToInt32(acc), 8)
         IN  ipToIntFrom(octets, i + 1,
                 IF n.nan THEN NaNWord ELSE NumWord(Add32(shifted, ToInt32(n.val))))
ipToInt(ip) == ipToIntFrom(Split(ip, "."), 1, NumWord(ZeroWord))

\* variant: prefix 0 is shifted like any other prefix (1 << 32 is 1 << 0)
getNetmaskWithoutZeroCase(prefix) ==
    BitNot(Add32(ShiftLeft(WordOfNat(1), 32 - prefix), OnesWord))

getNetmask(prefix) ==
    IF prefix = 0 THEN ZeroWord
    ELSE BitNot(Add32(ShiftLeft(WordOfNat(1), 32 - prefix), OnesWord))

\* variant: the first octet is taken with the sign-propagating shift and is
\* not masked ((networkInt >> 24) for (networkInt >>> 24) & 0xFF)
getNetworkAddressSignedShift(ip, prefix) ==
    LET ipInt == ipToInt(ip)
        mask == getNetmask(prefix)
        networkInt == BitAnd(WordToInt32(ipInt), mask)
    IN  ToString(LowByte(ShiftRightUnsigned(networkInt, 24))
                 - 256 * networkInt[WordBits]) \o "." \o
        ToString(LowByte(ShiftRightUnsigned(networkInt, 16))) \o "." \o
        ToString(LowByte(ShiftRightUnsigned(networkInt, 8))) \o "." \o
        ToString(LowByte(networkInt))

getNetworkAddress(ip, prefix) ==
    LET ipInt == ipToInt(ip)
        mask == getNetmask(prefix)
        networkInt == BitAnd(WordToInt32(ipInt), mask)
    IN  ToString(LowByte(ShiftRightUnsigned(networkInt, 24))) \o "." \o
        ToString(LowByte(ShiftRightUnsigned(networkInt, 16))) \o "." \o
        ToString(LowByte(ShiftRightUnsigned(networkInt, 8))) \o "." \o
        ToString(LowByte(networkInt))

(***************************************************************************)
(* validateGraphData of interactivity.js: the subnet check.  It returns    *)
(* nothing and reports through console.warn.                               *)
(***************************************************************************)
\* Object.entries of every node's interfaces, in document order
RECURSIVE InterfaceEntries(_, _)
InterfaceEntries(nodes, i) ==
    IF i > Len(nodes) THEN << >>
    ELSE (IF nodes[i].interfaces.defined
          THEN [k \in 1..Len(nodes[i].interfaces.entries) |->
                   [node |-> nodes[i].id,
                    ipAddress |-> Split(nodes[i].interfaces.entries[k].ip, "/")[1]]]
          ELSE << >>) \o InterfaceEntries(nodes, i + 1)

\* first loop: ipMap remembers the first node of each address
RECURSIVE DuplicateIPWarnings(_, _, _)
DuplicateIPWarnings(entries, i, ipMap) ==
    IF i > Len(entries) THEN << >>
    ELSE LET e == entries[i]
             seen == {m \in ipMap : m.ipAddress = e.ipAddress}
         IN  IF seen # {}
             THEN << "Direccion IP duplicada: " \o e.ipAddress \o " en nodo " \o e.node
                     \o " (ya usada por " \o (CHOOSE m \in seen : TRUE).node \o ")" >>
                  \o DuplicateIPWarnings(entries, i + 1, ipMap)
             ELSE DuplicateIPWarnings(entries, i + 1, ipMap \cup {e})

SubnetWarningHead == "IPs no estan en la subred especificada para el enlace "

\* new Map(data.nodes.map(...)).get(id): the last node carrying the id
HasNode(nodes, id) == \E i \in 1..Len(nodes) : nodes[i].id = id
LastNode(nodes, id) ==
    nodes[CHOOSE i \in 1..Len(nodes) :
             /\ nodes[i].id = id
             /\ \A j \in (i + 1)..Len(nodes) : nodes[j].id # id]

\* second loop, one edge: the warnings it writes
EdgeSubnetWarnings(nodes, edge) ==
    IF edge.weight = "" \/ edge.sourceInterface = "" \/ edge.targetInterface = ""
    THEN << >>
    ELSE
    LET parts == Split(edge.weight, "/")
        expectedNetwork == parts[1]
        prefix == IF Len(parts) >= 2 THEN parseInt(parts[2]) ELSE NaN
    IN  IF expectedNetwork = "" \/ prefix.nan THEN << >>
        ELSE IF ~HasNode(nodes, edge.source) \/ ~HasNode(nodes, edge.target) THEN << >>
        ELSE
        LET sourceNode == LastNode(nodes, edge.source)
            targetNode == LastNode(nodes, edge.target)
        IN  IF ~sourceNode.interfaces.defined \/ ~targetNode.interfaces.defined
            THEN << >>
            ELSE
            LET sourceIP == Split(InterfaceValue(sourceNode.interfaces,
                                                 edge.sourceInterface), "/")[1]
                targetIP == Split(InterfaceValue(targetNode.interfaces,
                                                 edge.targetInterface), "/")[1]
            IN  IF sourceIP = "" \/ targetIP = ""
                THEN << "Interfaz " \o edge.sourceInterface \o " no encontrada en "
                        \o edge.source \o " o " \o edge.targetInterface
                        \o " no encontrada en " \o edge.target >>
                ELSE
                LET calculatedSrcNetwork == getNetworkAddress(sourceIP, prefix.val)
                    calculatedDstNetwork == getNetworkAddress(targetIP, prefix.val)
                IN  IF \/ calculatedSrcNetwork # expectedNetwork
                       \/ calculatedDstNetwork # expectedNetwork
                    THEN << SubnetWarningHead \o edge.source \o " -> " \o edge.target
                            \o ". Subred esperada: " \o expectedNetwork \o "/"
                            \o ToString(prefix.val) \o ", IP fuente: " \o sourceIP
                            \o " (red: " \o calculatedSrcNetwork \o "), IP destino: "
                            \o targetIP \o " (red: " \o calculatedDstNetwork \o ")" >>
                    ELSE << >>

RECURSIVE SubnetWarnings(_, _, _)
SubnetWarnings(nodes, edges, i) ==
    IF i > Len(edges) THEN << >>
    ELSE EdgeSubnetWarnings(nodes, edges[i]) \o SubnetWarnings(nodes, edges, i + 1)

validateSubnets(data) ==
    DuplicateIPWarnings(InterfaceEntries(data.nodes, 1), 1, {})
        \o SubnetWarnings(data.nodes, data.edges, 1)

(***************************************************************************)
(* Subnet check of one link R1.eth0 -- R2.sourceInterface                  *)
(***************************************************************************)
\* addresses, prefix lengths and declared networks explored, as octets
SubnetIPs == { <<10, 0, 0, 1>>, <<10, 0, 0, 2>>, <<10, 0, 0, 5>>,
               <<200, 1, 2, 3>>, <<128, 0, 0, 1>> }
SubnetPrefixes == {0, 1, 8, 24, 30, 32}
SubnetNetworks == { <<10, 0, 0, 0>>, <<10, 0, 0, 4>>, <<10, 0, 0, 1>>,
                    <<0, 0, 0, 0>>, <<200, 1, 2, 0>>, <<128, 0, 0, 0>> }
SubnetInterfaces == {"eth0", "eth9"}

\* dotted-decimal notation of four octets
Dotted(o) ==
    ToString(o[1]) \o "." \o ToString(o[2]) \o "." \o ToString(o[3]) \o "."
        \o ToString(o[4])
Cidr(o, prefix) == Dotted(o) \o "/" \o ToString(prefix)

SubnetDoc(src, dst, prefix, net, srcIntf) ==
    [nodes |-> << DocNode("R1", "AS1", Interfaces(<< Entry("eth0", Cidr(src, prefix)) >>)),
                  DocNode("R2", "AS1", Interfaces(<< Entry("eth0", Cidr(dst, prefix)) >>)) >>,
     edges |-> << DocEdge("R1", srcIntf, "R2", "eth0", Cidr(net, prefix)) >>,
     edgesIsArray |-> TRUE]

SubnetInit ==
    /\ \E src \in SubnetIPs, dst \in SubnetIPs, prefix \in SubnetPrefixes,
          net \in SubnetNetworks, srcIntf \in SubnetInterfaces :
          graphData = SubnetDoc(src, dst, prefix, net, srcIntf)
    /\ outcome = "pending"
    /\ warnings = << >>
    /\ LayoutIdle
    /\ TransformIdle
    /\ LoadIdle
    /\ SliderIdle

ValidateSubnets ==
    /\ outcome = "pending"
    /\ warnings' = validateSubnets(graphData)
    /\ outcome' = "valid"
    /\ UNCHANGED <<graphData, layoutVars, transformVars, loadVars, sliderVars>>

SubnetNext == ValidateSubnets

SpecSubnet == SubnetInit /\ [][SubnetNext]_vars

\* the network address of four octets at a prefix length, octet by octet
NetworkOf(o, prefix) ==
    [i \in 1..4 |->
        LET kept == Max(0, Min(8, prefix - 8 * (i - 1)))
            unit == 2^(8 - kept)
        IN  (o[i] \div unit) * unit]

IsSubnetWarning(w) ==
    /\ Len(w) >= Len(SubnetWarningHead)
    /\ SubSeq(w, 1, Len(SubnetWarningHead)) = SubnetWarningHead
SubnetWarned == \E i \in 1..Len(warnings) : IsSubnetWarning(warnings[i])

\* C7: for an edge with a weight network/prefix whose two interfaces resolve
\* to IPs, a subnet-mismatch warning is written if and only if the network
\* of the source IP or of the target IP at the edge's prefix length differs
\* from the declared network.
C7_WarningIffNetworkDiffers ==
    outcome = "valid" =>
        \A src \in SubnetIPs, dst \in SubnetIPs, prefix \in SubnetPrefixes,
           net \in SubnetNetworks :
           graphData = SubnetDoc(src, dst, prefix, net, "eth0") =>
               (SubnetWarned <=> (\/ NetworkOf(src, prefix) # net
                                  \/ NetworkOf(dst, prefix) # net))

\* 10.0.0.1/30 and 10.0.0.2/30 on a link declared as 10.0.0.4/30: the
\* validator has run and has emitted the subnet warning
C7_Witness ==
    /\ outcome = "valid"
    /\ graphData = SubnetDoc(<<10, 0, 0, 1>>, <<10, 0, 0, 2>>, 30, <<10, 0, 0, 4>>, "eth0")
    /\ SubnetWarned

(***************************************************************************)
(* validateGraphData of the data.js variant that keeps the set allIps      *)
(* (part_002): the Error thrown, or "valid", and the warnings written      *)
(***************************************************************************)
RECURSIVE InterfacesErrorAllIps(_, _, _, _)
InterfacesErrorAllIps(id, entries, i, allIps) ==
    IF i > Len(entries) THEN [error |-> "", allIps |-> allIps]
    ELSE LET e == InterfaceError(id, entries[i].ip)
             ip == Split(entries[i].ip, "/")[1]
         IN  IF e # "" THEN [error |-> e, allIps |-> allIps]
             ELSE IF ip \in allIps
                  THEN [error |-> "Direccion IP duplicada: " \o ip \o " en nodo " \o id,
                        allIps |-> allIps]
             ELSE InterfacesErrorAllIps(id, entries, i + 1, allIps \cup {ip})

RECURSIVE NodesErrorAllIps(_, _, _, _)
NodesErrorAllIps(nodes, i, nodeIds, allIps) ==
    IF i > Len(nodes) THEN ""
    ELSE IF nodes[i].id = "" THEN "Nodo sin ID"
    ELSE IF nodes[i].id \in nodeIds THEN "ID duplicado: " \o nodes[i].id
    ELSE LET r == IF nodes[i].interfaces.defined
                  THEN InterfacesErrorAllIps(nodes[i].id, nodes[i].interfaces.entries,
                                             1, allIps)
                  ELSE [error |-> "", allIps |-> allIps]
         IN  IF r.error # "" THEN r.error
             ELSE NodesErrorAllIps(nodes, i + 1, nodeIds \cup {nodes[i].id}, r.allIps)

\* the Error of one edge: the checks of data.js, then the reads of
\* interfaces[sourceInterface] on a node without interfaces and of
\* weight.split on an edge without weight, which throw a TypeError
EdgeErrorAllIps(nodes, edge) ==
    LET e == EdgeError(nodes, edge) IN
    IF e # "" THEN e
    ELSE IF \/ ~FindNode(nodes, edge.source).interfaces.defined
            \/ ~FindNode(nodes, edge.target).interfaces.defined
            \/ edge.weight = ""
         THEN "TypeError"
    ELSE ""

\* [source, target].sort() with the interfaces in the same order: the
\* signature up to the order the sort chooses
LinkSignature(edge) ==
    IF edge.source = edge.target
    THEN {<<edge.source, edge.sourceInterface, edge.targetInterface>>}
    ELSE {<<edge.source, edge.sourceInterface>>, <<edge.target, edge.targetInterface>>}

\* a value as !== compares it: a string and a number are never equal
JsString(str) == [type |-> "string", str |-> str, num |-> NaNWord]
JsNumber(num) == [type |-> "number", str |-> "", num |-> num]

\* the warnings of one accepted edge.  getNetworkAddress returns the dotted
\* string and ipToInt the number; 1 << (32 - NaN) is 1 << 0, as for prefix 32
EdgeWarningsAllIps(nodes, edge, edgeSignatures) ==
    LET sourceIpStr == Split(InterfaceValue(FindNode(nodes, edge.source).interfaces,
                                            edge.sourceInterface), "/")
        targetIpStr == Split(InterfaceValue(FindNode(nodes, edge.target).interfaces,
                                            edge.targetInterface), "/")
        sourceMask == sourceIpStr[2]
        targetMask == targetIpStr[2]
        parts == Split(edge.weight, "/")
        edgeMask == IF Len(parts) >= 2 THEN parts[2] ELSE "undefined"
        prefix == IF parseInt(edgeMask).nan THEN 32 ELSE parseInt(edgeMask).val
        sourceNetwork == JsString(getNetworkAddress(sourceIpStr[1], prefix))
        targetNetwork == JsString(getNetworkAddress(targetIpStr[1], prefix))
        edgeNetworkInt == JsNumber(ipToInt(parts[1]))
    IN  (IF sourceMask # edgeMask \/ targetMask # edgeMask
         THEN << "Mascaras inconsistentes en enlace " \o edge.source \o " -> "
                 \o edge.target \o ": " \o sourceMask \o " vs " \o edgeMask
                 \o " vs " \o targetMask >>
         ELSE << >>)
        \o (IF sourceNetwork # edgeNetworkInt \/ targetNetwork # edgeNetworkInt
            THEN << SubnetWarningHead \o edge.source \o " -> " \o edge.target >>
            ELSE << >>)
        \o (IF LinkSignature(edge) \in edgeSignatures
            THEN << "Adv: Enlace duplicado entre " \o edge.source \o " y "
                    \o edge.target \o " usando interfaces " \o edge.sourceInterface
                    \o " y " \o edge.targetInterface >>
            ELSE << >>)

RECURSIVE EdgesResultAllIps(_, _, _, _, _)
EdgesResultAllIps(nodes, edges, i, edgeSignatures, warns) ==
    IF i > Len(edges) THEN [outcome |-> "valid", warnings |-> warns]
    ELSE LET e == EdgeErrorAllIps(nodes, edges[i]) IN
         IF e # "" THEN [outcome |-> e, warnings |-> warns]
         ELSE EdgesResultAllIps(nodes, edges, i + 1,
                  edgeSignatures \cup {LinkSignature(edges[i])},
                  warns \o EdgeWarningsAllIps(nodes, edges[i], edgeSignatures))

validateGraphDataAllIps(data) ==
    IF ~data.edgesIsArray
    THEN [outcome |-> "Formato de bgp_graph.json invalido", warnings |-> << >>]
    ELSE LET e == NodesErrorAllIps(data.nodes, 1, {}, {}) IN
         IF e # "" THEN [outcome |-> e, warnings |-> << >>]
         ELSE EdgesResultAllIps(data.nodes, data.edges, 1, {}, << >>)

\* documents explored: two routers with the same address, with different
\* addresses, with a malformed one or with none; no link, one, one twice,
\* one between interfaces of different prefix lengths, one without weight
AllIpsInterfaces ==
    { NoInterfaces,
      Interfaces(<< Entry("eth0", "10.0.0.1/30") >>),
      Interfaces(<< Entry("eth0", "10.0.0.2/30") >>),
      Interfaces(<< Entry("eth0", "10.0.0.2/30"), Entry("eth1", "10.0.1.1/24") >>),
      Interfaces(<< Entry("eth0", "10.0.0.300/30") >>) }
AllIpsNodes == {DocNode(id, "AS1", intfs) : id \in {"R1", "R2"}, intfs \in AllIpsInterfaces}
AllIpsEdgeSeqs ==
    { << >>,
      << DocEdge("R1", "eth0", "R2", "eth0", "10.0.0.0/30") >>,
      << DocEdge("R1", "eth0", "R2", "eth0", "10.0.0.0/30"),
         DocEdge("R2", "eth0", "R1", "eth0", "10.0.0.0/30") >>,
      << DocEdge("R1", "eth0", "R2", "eth1", "10.0.0.0/30") >>,
      << DocEdge("R1", "eth0", "R2", "eth0", "") >> }

ValidateAllIpsInit ==
    /\ graphData \in [nodes : UNION {[1..n -> AllIpsNodes] : n \in 0..MaxDocNodes},
                      edges : AllIpsEdgeSeqs,
                      edgesIsArray : BOOLEAN]
    /\ outcome = "pending"
    /\ warnings = << >>
    /\ LayoutIdle
    /\ TransformIdle
    /\ LoadIdle
    /\ SliderIdle

ValidateAllIps ==
    /\ outcome = "pending"
    /\ LET r == validateGraphDataAllIps(graphData) IN
          /\ outcome' = r.outcome
          /\ warnings' = r.warnings
    /\ UNCHANGED <<graphData, layoutVars, transformVars, loadVars, sliderVars>>

ValidateAllIpsNext == ValidateAllIps

SpecValidateAllIps == ValidateAllIpsInit /\ [][ValidateAllIpsNext]_vars

\* two different nodes of the document carry the same IP address
SharesAddress(nodes) ==
    \E a, b \in 1..Len(InterfaceEntries(nodes, 1)) :
        /\ InterfaceEntries(nodes, 1)[a].node # InterfaceEntries(nodes, 1)[b].node
        /\ InterfaceEntries(nodes, 1)[a].ipAddress = InterfaceEntries(nodes, 1)[b].ipAddress
\* no missing or repeated id, no malformed address, no edge to a missing
\* node or to an interface its node does not declare
StructurallySound(data) ==
    /\ validateGraphData(data).outcome = "valid"
    /\ \A i \in 1..Len(data.edges) :
          /\ data.edges[i].weight # ""
          /\ DeclaresInterface(data.nodes, data.edges[i].source,
                               data.edges[i].sourceInterface)
          /\ DeclaresInterface(data.nodes, data.edges[i].target,
                               data.edges[i].targetInterface)
DuplicateAddressHead == "Direccion IP duplicada"
DuplicateAddressWarned ==
    \E i \in 1..Len(warnings) :
        /\ Len(warnings[i]) >= Len(DuplicateAddressHead)
        /\ SubSeq(warnings[i], 1, Len(DuplicateAddressHead)) = DuplicateAddressHead

\* C18: a document in which two different nodes carry the same IP address
\* and that has no structural error is accepted by validateGraphData, and
\* the repeated address is reported as a warning.
C18_SharedAddressAccepted ==
    (/\ outcome # "pending"
     /\ SharesAddress(graphData.nodes)
     /\ StructurallySound(graphData)) =>
        outcome = "valid" /\ DuplicateAddressWarned

(***************************************************************************)
(* getNetworkAddress applied to the address and the prefix length of one   *)
(* interface                                                               *)
(***************************************************************************)
\* addresses explored: first octets on both sides of 128, the other octets
\* with low and high bits set; every prefix length
NetworkIPs ==
    { <<a, b, c, d>> : a \in {0, 10, 127, 128, 192, 255}, b \in {0, 255},
                       c \in {1, 128}, d \in {2, 255} }
NetworkPrefixes == 0..32

NetworkDoc(ip, prefix) ==
    [nodes |-> << DocNode("R1", "AS1", Interfaces(<< Entry("eth0", Cidr(ip, prefix)) >>)) >>,
     edges |-> << >>,
     edgesIsArray |-> TRUE]

NetworkInit ==
    /\ \E ip \in NetworkIPs, prefix \in NetworkPrefixes :
          graphData = NetworkDoc(ip, prefix)
    /\ outcome = "pending"
    /\ warnings = << >>
    /\ LayoutIdle
    /\ TransformIdle
    /\ LoadIdle
    /\ SliderIdle

\* the "ip/prefix" string of the interface, split as the validators split it
AddressParts == Split(graphData.nodes[1].interfaces.entries[1].ip, "/")

\* getNetworkAddress(ip, parseInt(prefix, 10)); outcome holds the string
\* it returns
GetNetworkAddress ==
    /\ outcome = "pending"
    /\ outcome' = getNetworkAddress(AddressParts[1], parseInt(AddressParts[2]).val)
    /\ UNCHANGED <<graphData, warnings, layoutVars, transformVars, loadVars, sliderVars>>

NetworkNext == GetNetworkAddress

SpecNetwork == NetworkInit /\ [][NetworkNext]_vars

AddressOctets == [i \in 1..4 |-> parseInt(Split(AddressParts[1], ".")[i]).val]
AddressPrefix == parseInt(AddressParts[2]).val

\* C20: for an address of four octets in 0..255 and a prefix length p in
\* 0..32, getNetworkAddress returns the dotted-decimal form of the address
\* with its low 32 - p bits cleared: 0.0.0.0 for p = 0, the address itself
\* for p = 32, also when the first octet is 128 or more.
C20_NetworkAddressClearsLowBits ==
    outcome # "pending" =>
        /\ outcome = Dotted(NetworkOf(AddressOctets, AddressPrefix))
        /\ AddressPrefix = 0 => outcome = "0.0.0.0"
        /\ AddressPrefix = 32 => outcome = AddressParts[1]

\* 192.255.128.255/18 has the network address 192.255.128.0
C20_Witness ==
    /\ graphData = NetworkDoc(<<192, 255, 128, 255>>, 18)
    /\ outcome = "192.255.128.0"

(***************************************************************************)
(* The transformer: generateInterfaceNodes, transformEdges and             *)
(* addHierarchicalEdges, with the module-level map interfaceNodeToRouter   *)
(***************************************************************************)
ElementNode(id, type, parent, router) ==
    [id |-> id, type |-> type, parent |-> parent, router |-> router]

\* the interface nodes of one router, in the order of Object.entries
InterfaceNodesOf(node) ==
    IF node.interfaces.defined
    THEN [k \in 1..Len(node.interfaces.entries) |->
             ElementNode(node.id \o "_" \o node.interfaces.entries[k].name,
                         "interface", node.parent, node.id)]
    ELSE << >>

RECURSIVE generatedFrom(_, _)
generatedFrom(nodes, i) ==
    IF i > Len(nodes) THEN << >>
    ELSE InterfaceNodesOf(nodes[i]) \o generatedFrom(nodes, i + 1)

\* generateInterfaceNodes: the nodes, the map it rebuilds, and whether it
\* throws for an interface id produced twice
generateInterfaceNodes(nodes) ==
    LET generated == generatedFrom(nodes, 1) IN
    [interfaceNodes |-> generated,
     map |-> [id \in Ids(generated) |->
                 generated[CHOOSE i \in 1..Len(generated) :
                              /\ generated[i].id = id
                              /\ \A j \in (i + 1)..Len(generated) : generated[j].id # id].router],
     duplicated |-> \E i, j \in 1..Len(generated) :
                       i # j /\ generated[i].id = generated[j].id]

\* variant: only the source interface is looked up among the interface nodes
TransformedEdgeSourceOnly(edge, interfaceNodeIds) ==
    IF \/ edge.source = "" \/ edge.target = ""
       \/ edge.sourceInterface = "" \/ edge.targetInterface = "" \/ edge.weight = ""
    THEN << >>
    ELSE LET sourceIntfId == edge.source \o "_" \o edge.sourceInterface
             targetIntfId == edge.target \o "_" \o edge.targetInterface
         IN  IF sourceIntfId \notin interfaceNodeIds
             THEN << >>
             ELSE << Edge(sourceIntfId, targetIntfId, edge.weight, "") >>

\* transformEdges, one edge: the retargeted edge, or nothing
TransformedEdge(edge, interfaceNodeIds) ==
    IF \/ edge.source = "" \/ edge.target = ""
       \/ edge.sourceInterface = "" \/ edge.targetInterface = "" \/ edge.weight = ""
    THEN << >>
    ELSE LET sourceIntfId == edge.source \o "_" \o edge.sourceInterface
             targetIntfId == edge.target \o "_" \o edge.targetInterface
         IN  IF sourceIntfId \notin interfaceNodeIds \/ targetIntfId \notin interfaceNodeIds
             THEN << >>
             ELSE << Edge(sourceIntfId, targetIntfId, edge.weight, "") >>

RECURSIVE transformEdgesFrom(_, _, _)
transformEdgesFrom(edges, interfaceNodeIds, i) ==
    IF i > Len(edges) THEN << >>
    ELSE TransformedEdge(edges[i], interfaceNodeIds)
            \o transformEdgesFrom(edges, interfaceNodeIds, i + 1)
transformEdges(edges, generated) ==
    transformEdgesFrom(edges, Ids(generated), 1)

\* addHierarchicalEdges, first loop: AS > router and router > interface
HierarchyOf(node) ==
    (IF node.parent # "" /\ node.type = ""
     THEN << Edge(node.parent, node.id, "", "hierarchical") >> ELSE << >>)
    \o (IF node.type = "interface" /\ node.router # ""
        THEN << Edge(node.router, node.id, "", "router-interface") >> ELSE << >>)

RECURSIVE hierarchyFrom(_, _)
hierarchyFrom(nodes, i) ==
    IF i > Len(nodes) THEN << >>
    ELSE HierarchyOf(nodes[i]) \o hierarchyFrom(nodes, i + 1)

\* interfaceNodeToRouter[id]; a missing key reads as the empty (falsy) value
RouterOfInterface(map, id) == IF id \in DOMAIN map THEN map[id] ELSE ""

\* addHierarchicalEdges, second loop: the invisible router-to-router edges
RECURSIVE routerConnectionsFrom(_, _, _, _)
routerConnectionsFrom(edges, map, i, connectionSigs) ==
    IF i > Len(edges) THEN << >>
    ELSE LET sourceRouter == RouterOfInterface(map, edges[i].source)
             targetRouter == RouterOfInterface(map, edges[i].target)
             connectionSig == PairSignature(sourceRouter, targetRouter)
         IN  IF /\ sourceRouter # "" /\ targetRouter # "" /\ sourceRouter # targetRouter
                /\ connectionSig \notin connectionSigs
             THEN << Edge(sourceRouter, targetRouter, "", "router-connection") >>
                  \o routerConnectionsFrom(edges, map, i + 1,
                                           connectionSigs \cup {connectionSig})
             ELSE routerConnectionsFrom(edges, map, i + 1, connectionSigs)

addHierarchicalEdges(nodes, edges, map) ==
    edges \o hierarchyFrom(nodes, 1) \o routerConnectionsFrom(edges, map, 1, {})

(***************************************************************************)
(* The transformer calls of initializeGraph on a document of one AS and    *)
(* three routers with two interfaces each                                  *)
(***************************************************************************)
MaxDocEdges == 3

\* router ids explored: names, numerals, and a router whose id is the id
\* generated for an interface of another router
RouterIdSchemes ==
    { <<"R1", "R2", "R14">>, <<"1", "2", "14">>, <<"R1", "R1_eth0", "R14">> }

TransformNodes(ids) ==
    << DocNode("AS1", "", NoInterfaces) >> \o
    [k \in 1..3 |->
        DocNode(ids[k], "AS1",
                Interfaces(<< Entry("eth0", "10.0.0.1/30"), Entry("eth1", "10.0.1.1/30") >>))]

\* links explored: every ordered pair of routers, a router linked to itself,
\* a link naming an interface the router does not have (at its source, at
\* its target), a link without weight, and a link from an interface to itself
LinkChoices(ids) ==
    {DocEdge(ids[a], "eth0", ids[b], IF a = b THEN "eth1" ELSE "eth0", "10.0.0.0/30")
        : a \in 1..3, b \in 1..3}
    \cup {DocEdge(ids[1], "eth9", ids[2], "eth0", "10.0.0.0/30"),
          DocEdge(ids[1], "eth1", ids[2], "eth9", "10.0.0.0/30"),
          DocEdge(ids[1], "eth1", ids[2], "eth1", ""),
          DocEdge(ids[1], "eth0", ids[1], "eth0", "10.0.0.0/30")}

TransformInit ==
    /\ \E ids \in RouterIdSchemes, n \in 0..MaxDocEdges :
          \E links \in [1..n -> LinkChoices(ids)] :
             graphData = [nodes |-> TransformNodes(ids), edges |-> links,
                          edgesIsArray |-> TRUE]
    /\ outcome = "pending"
    /\ warnings = << >>
    /\ LayoutIdle
    /\ TransformIdle
    /\ LoadIdle
    /\ SliderIdle

\* const interfaceNodes = generateInterfaceNodes(data.nodes), and the node
\* list loadData returns: the document's nodes, then the interface nodes
GenerateInterfaceNodes ==
    /\ stage = "idle"
    /\ graphData # NoData
    /\ LET g == generateInterfaceNodes(graphData.nodes) IN
          /\ interfaceNodeToRouter' = g.map
          /\ IF g.duplicated
             THEN /\ outcome' = "ID duplicado para nodo de interfaz"
                  /\ stage' = "failed"
                  /\ UNCHANGED elements
             ELSE /\ elements' =
                        [nodes |-> [k \in 1..Len(graphData.nodes) |->
                                       ElementNode(graphData.nodes[k].id, "",
                                                   graphData.nodes[k].parent, "")]
                                   \o g.interfaceNodes,
                         edges |-> << >>]
                  /\ stage' = "generated"
                  /\ UNCHANGED outcome
    /\ UNCHANGED <<graphData, warnings, layoutVars, loadVars, sliderVars>>

\* const transformedEdges = transformEdges(data.edges, interfaceNodes)
TransformEdges ==
    /\ stage = "generated"
    /\ elements' = [elements EXCEPT !.edges =
                       transformEdges(graphData.edges, interfaceNodes(elements.nodes))]
    /\ stage' = "transformed"
    /\ UNCHANGED <<dataVars, interfaceNodeToRouter, layoutVars, loadVars, sliderVars>>

\* const allEdges = addHierarchicalEdges(allNodes, transformedEdges)
AddHierarchicalEdges ==
    /\ stage = "transformed"
    /\ elements' = [elements EXCEPT !.edges =
                       addHierarchicalEdges(elements.nodes, elements.edges,
                                            interfaceNodeToRouter)]
    /\ stage' = "done"
    /\ UNCHANGED <<dataVars, interfaceNodeToRouter, layoutVars, loadVars, sliderVars>>

TransformNext ==
    \/ GenerateInterfaceNodes
    \/ TransformEdges
    \/ AddHierarchicalEdges

SpecTransform == TransformInit /\ [][TransformNext]_vars

\* the routers of the element list, and the router an interface node names
RouterIds(nodes) ==
    {nodes[i].id : i \in {j \in 1..Len(nodes) : nodes[j].type = "" /\ nodes[j].parent # ""}}
RouterField(nodes, id) ==
    IF id \in Ids(nodes) THEN nodes[IndexOf(nodes, id)].router ELSE ""
\* a Topology edge joins an interface of a and an interface of b
TopologyLinked(a, b) ==
    \E i \in 1..Len(elements.edges) :
        /\ elements.edges[i].weight # ""
        /\ {RouterField(elements.nodes, elements.edges[i].source),
            RouterField(elements.nodes, elements.edges[i].target)} = {a, b}
RouterConnectionCount(a, b) ==
    Cardinality({i \in 1..Len(elements.edges) :
                    /\ elements.edges[i].type = "router-connection"
                    /\ {elements.edges[i].source, elements.edges[i].target} = {a, b}})

\* C10: addHierarchicalEdges appends exactly one router-connection edge for
\* each unordered pair of distinct routers with a Topology edge between
\* their interfaces, and none for any other pair, whatever the router ids.
C10_OneRouterConnectionPerPair ==
    stage = "done" =>
        \A a \in RouterIds(elements.nodes), b \in RouterIds(elements.nodes) :
            RouterConnectionCount(a, b) =
                IF a # b /\ TopologyLinked(a, b) THEN 1 ELSE 0

\* numeral ids: the pairs 1-2 and 2-14 are linked and each has its edge
C10_NumeralIdsWitness ==
    /\ stage = "done"
    /\ TopologyLinked("1", "2") /\ TopologyLinked("2", "14")
    /\ RouterConnectionCount("1", "2") = 1
    /\ RouterConnectionCount("2", "14") = 1

\* the interface node ids an edge of the document resolves to
ResolvedSource(edge) == edge.source \o "_" \o edge.sourceInterface
ResolvedTarget(edge) == edge.target \o "_" \o edge.targetInterface
GeneratedIds == Ids(interfaceNodes(elements.nodes))
Resolves(edge) ==
    ResolvedSource(edge) \in GeneratedIds /\ ResolvedTarget(edge) \in GeneratedIds
\* no field of the edge is missing or empty
Complete(edge) ==
    /\ edge.source # "" /\ edge.target # ""
    /\ edge.sourceInterface # "" /\ edge.targetInterface # "" /\ edge.weight # ""
Retargeted(edges) ==
    [k \in 1..Len(edges) |->
        Edge(ResolvedSource(edges[k]), ResolvedTarget(edges[k]), edges[k].weight, "")]

\* C11 (as stated): transformEdges returns, in input order and retargeted to
\* the generated interface ids, exactly the input edges whose two resolved
\* router_interface ids are ids of generated interface nodes.
C11_ResolvedEdgesReturned ==
    stage = "transformed" =>
        elements.edges = Retargeted(SelectSeq(graphData.edges, Resolves))

\* C11 (amended): transformEdges returns, in input order and retargeted to
\* the generated interface ids, exactly the input edges that have no missing
\* or empty field and whose two resolved ids are ids of generated interface
\* nodes; every returned edge has both ends at generated interface nodes.
C11_CompleteResolvedEdgesReturned ==
    stage = "transformed" =>
        /\ elements.edges =
              Retargeted(SelectSeq(graphData.edges,
                                   LAMBDA e : Complete(e) /\ Resolves(e)))
        /\ \A i \in 1..Len(elements.edges) :
              /\ elements.edges[i].source \in GeneratedIds
              /\ elements.edges[i].target \in GeneratedIds

\* a link with an unknown target interface is dropped between two that stay
C11_Witness ==
    /\ stage = "transformed"
    /\ Len(graphData.edges) = 3
    /\ graphData.edges[2] = DocEdge("R1", "eth1", "R2", "eth9", "10.0.0.0/30")
    /\ elements.edges = << Edge("R1_eth0", "R2_eth0", "10.0.0.0/30", ""),
                           Edge("R2_eth0", "R14_eth0", "10.0.0.0/30", "") >>

\* C12: no edge returned by transformEdges has its resolved source equal to
\* its resolved target.
C12_NoSelfLoopReturned ==
    stage = "transformed" =>
        \A i \in 1..Len(elements.edges) :
            elements.edges[i].source # elements.edges[i].target

\* C15: whenever validateGraphData and generateInterfaceNodes both succeed on
\* a document, the ids of the combined node set (the nodes of the document
\* and the generated interface nodes) are pairwise distinct.
C15_CombinedIdsDistinct ==
    (/\ stage \in {"generated", "transformed", "done"}
     /\ validateGraphData(graphData).outcome = "valid") =>
        \A i, j \in 1..Len(elements.nodes) :
            i # j => elements.nodes[i].id # elements.nodes[j].id

(***************************************************************************)
(* loadData of data.js: Initial Placement.  A Math.random() outcome is a   *)
(* number of tenths; savedData.positions maps some ids to a position.      *)
(***************************************************************************)
RandomTenths == {0, 5}     \* outcomes of Math.random() explored: 0.0 and 0.5

\* (Math.random() - 0.5) * span, in fixed-point units
RandomOffset(r, span) == Quot((r - 5) * span * Pix, 10)

\* the table angle closest to Math.atan2(dy, dx); atan2(0, 0) is 0
Atan2(dy, dx) ==
    CHOOSE a \in 0..(AngleUnits - 1) :
        /\ \A b \in 0..(AngleUnits - 1) :
              dx * Cos(a) + dy * Sin(a) >= dx * Cos(b) + dy * Sin(b)
        /\ \A b \in 0..(a - 1) :
              dx * Cos(b) + dy * Sin(b) < dx * Cos(a) + dy * Sin(a)

\* Math.ceil(Math.sqrt(n))
CeilSqrt(n) == CHOOSE k \in 0..n : k * k >= n /\ \A j \in 0..(k - 1) : j * j < n

\* savedData.positions?.[id]?.x && savedData.positions?.[id]?.y
HasSavedPosition(saved, id) ==
    /\ id \in DOMAIN saved.positions
    /\ saved.positions[id].x # 0
    /\ saved.positions[id].y # 0

\* the position given to an AS without a usable saved position
GridPosition(nonInterface, id, r) ==
    LET roots == SelectSeq(nonInterface, LAMBDA n : n.parent = "")
        asIndex == IndexOf(roots, id) - 1
        asGrid == CeilSqrt(Len(nonInterface))
        asRow == asIndex \div asGrid
        asCol == asIndex % asGrid
        gridSize == 900 * Pix
    IN  Vec(200 * Pix + asCol * gridSize + RandomOffset(r, 100),
            350 * Pix + asRow * gridSize + RandomOffset(r, 100))

\* the position given to a router without a usable saved position
AroundAS(nonInterface, node, asPos, r) ==
    LET routersInAs == SelectSeq(nonInterface, LAMBDA n : n.parent = node.parent)
        numRouters == Len(routersInAs)
        index == IndexOf(routersInAs, node.id) - 1
        angle == (AngleUnits * index) \div numRouters
        radius == 150 * Pix
    IN  Vec(asPos.x + MulCos(radius, angle) + RandomOffset(r, 20),
            asPos.y + MulSin(radius, angle) + RandomOffset(r, 20))

\* nonInterfaceNodes.forEach: positions so far as a function of the id
RECURSIVE PlaceNonInterface(_, _, _, _, _)
PlaceNonInterface(nonInterface, saved, r, i, placed) ==
    IF i > Len(nonInterface) THEN placed
    ELSE LET node == nonInterface[i]
             pos == IF HasSavedPosition(saved, node.id)
                    THEN saved.positions[node.id]
                    ELSE IF node.parent = ""
                    THEN GridPosition(nonInterface, node.id, r.as)
                    ELSE AroundAS(nonInterface, node, placed[node.parent], r.router)
         IN  PlaceNonInterface(nonInterface, saved, r, i + 1,
                               (node.id :> pos) @@ placed)

\* interfaceConnections[intfId]: the far end of the last edge naming intfId
ConnectedInterface(edges, intfId) ==
    LET SourceId(e) == e.source \o "_" \o e.sourceInterface
        TargetId(e) == e.target \o "_" \o e.targetInterface
        naming == {i \in 1..Len(edges) :
                      SourceId(edges[i]) = intfId \/ TargetId(edges[i]) = intfId}
    IN  IF naming = {} THEN ""
        ELSE LET e == edges[CHOOSE i \in naming : \A j \in naming : j <= i]
             IN  IF TargetId(e) = intfId THEN SourceId(e) ELSE TargetId(e)

\* (Math.random() - 0.5) * Math.PI / 9, in table angles
RandomAngleOffset(r) == Quot((r - 5) * AngleUnits, 180)

\* the position loadData gives to an interface node: always a fresh one
InterfacePosition(nodes, edges, placed, intfNode, r) ==
    LET interfaces == routerToInterfaces(nodes, intfNode.router)
        routerPos == placed[intfNode.router]
        numInterfaces == Len(interfaces)
        baseRadius == (40 + 10 * (numInterfaces - 1)) * Pix
        connectedIntfId == ConnectedInterface(edges, intfNode.id)
        initialAngle ==
            IF connectedIntfId # "" /\ connectedIntfId \in Ids(nodes)
            THEN LET connectedRouter == nodes[IndexOf(nodes, connectedIntfId)].router
                 IN  Atan2(placed[connectedRouter].y - routerPos.y,
                           placed[connectedRouter].x - routerPos.x)
            ELSE (AngleUnits * (IndexOf(interfaces, intfNode.id) - 1)) \div numInterfaces
        angle == initialAngle + RandomAngleOffset(r)
    IN  Vec(routerPos.x + MulCos(baseRadius, angle),
            routerPos.y + MulSin(baseRadius, angle))

\* loadData(nodes, edges): nonInterfaceNodes.concat(interfaceNodes), placed
loadData(nodes, edges, saved, r) ==
    LET nonInterface == SelectSeq(nodes, LAMBDA n : n.type # "interface")
        intfNodes == SelectSeq(nodes, IsInterface)
        placed == PlaceNonInterface(nonInterface, saved, r, 1, << >>)
    IN  [k \in 1..Len(nonInterface) |->
            [id |-> nonInterface[k].id, type |-> "", parent |-> nonInterface[k].parent,
             router |-> "", locked |-> FALSE, pos |-> placed[nonInterface[k].id]]]
        \o
        [k \in 1..Len(intfNodes) |->
            [id |-> intfNodes[k].id, type |-> "interface", parent |-> intfNodes[k].parent,
             router |-> intfNodes[k].router, locked |-> FALSE,
             pos |-> InterfacePosition(nodes, edges, placed, intfNodes[k], r.intf)]]

(***************************************************************************)
(* initializeGraph of utils.js on a document of one AS, two routers and a  *)
(* link between them, with positions saved for some of the nodes           *)
(***************************************************************************)
LoadDoc ==
    [nodes |-> << DocNode("AS1", "", NoInterfaces),
                  DocNode("R1", "AS1", Interfaces(<< Entry("eth0", "10.0.0.1/30") >>)),
                  DocNode("R2", "AS1", Interfaces(<< Entry("eth0", "10.0.0.2/30") >>)) >>,
     edges |-> << DocEdge("R1", "eth0", "R2", "eth0", "10.0.0.0/30") >>,
     edgesIsArray |-> TRUE]

\* positions a saved state may hold for each node; one with a coordinate 0
\* for the AS and for an interface
SavedOptions ==
    [AS1     |-> {Vec(300 * Pix, 200 * Pix), Vec(0, 200 * Pix)},
     R1      |-> {Vec(450 * Pix, 250 * Pix)},
     R2      |-> {Vec(150 * Pix, 250 * Pix)},
     R1_eth0 |-> {Vec(400 * Pix, 300 * Pix), Vec(400 * Pix, 0)},
     R2_eth0 |-> {Vec(200 * Pix, 300 * Pix)}]
SavedPositions ==
    UNION {{f \in [S -> UNION {SavedOptions[id] : id \in S}] :
               \A id \in S : f[id] \in SavedOptions[id]}
           : S \in SUBSET DOMAIN SavedOptions}
SavedLocks == {{}, {"R1"}}

LoadInit ==
    /\ graphData = LoadDoc
    /\ savedData \in [positions : SavedPositions, lockedNodes : SavedLocks]
    /\ spacings = NoSpacings
    /\ outcome = "pending"
    /\ warnings = << >>
    /\ LayoutIdle
    /\ TransformIdle
    /\ SliderIdle

\* initializeGraph up to the construction of cy: generateInterfaceNodes,
\* loadData, transformEdges, addHierarchicalEdges, cytoscape({elements})
LoadData ==
    /\ stage = "idle"
    /\ \E r \in [as : RandomTenths, router : RandomTenths, intf : RandomTenths] :
          LET generated == generatedFrom(graphData.nodes, 1)
              docNodes == [k \in 1..Len(graphData.nodes) |->
                             ElementNode(graphData.nodes[k].id, "",
                                         graphData.nodes[k].parent, "")]
              allNodes == loadData(docNodes \o generated, graphData.edges, savedData, r)
              transformedEdges == transformEdges(graphData.edges, generated)
          IN  /\ cyNodes' = allNodes
              /\ cyEdges' = transformedEdges \o hierarchyFrom(allNodes, 1)
    /\ stage' = "loaded"
    /\ UNCHANGED <<pc, nodeMap, iter, draws, slotOf, lastDraws, drags>>
    /\ UNCHANGED <<dataVars, interfaceNodeToRouter, elements, loadVars, sliderVars>>

allNodesHaveSavedPositions ==
    \A i \in 1..Len(cyNodes) : HasSavedPosition(savedData, cyNodes[i].id)

\* if (!allNodesHaveSavedPositions) bgpHierarchicalLayout(cy, allNodes, allEdges, false)
LoadLayout ==
    /\ stage = "loaded"
    /\ ~allNodesHaveSavedPositions
    /\ BeginLayout
    /\ stage' = "layout"
    /\ UNCHANGED <<cyNodes, cyEdges, lastDraws, drags>>
    /\ UNCHANGED <<dataVars, interfaceNodeToRouter, elements, loadVars, sliderVars>>

\* else: every node gets its saved position and its saved lock flag
RestoreSaved ==
    /\ stage = "loaded"
    /\ allNodesHaveSavedPositions
    /\ cyNodes' = [i \in 1..Len(cyNodes) |->
                      [cyNodes[i] EXCEPT
                          !.pos = savedData.positions[cyNodes[i].id],
                          !.locked = cyNodes[i].id \in savedData.lockedNodes]]
    /\ stage' = "restored"
    /\ UNCHANGED <<cyEdges, pc, nodeMap, iter, draws, slotOf, lastDraws, drags>>
    /\ UNCHANGED <<dataVars, interfaceNodeToRouter, elements, loadVars, sliderVars>>

LoadNext ==
    \/ LoadData
    \/ LoadLayout
    \/ RestoreSaved
    \/ ForcesStep
    \/ IntegrateStep
    \/ ReorderStep
    \/ CommitStep

SpecLoad == LoadInit /\ [][LoadNext]_vars

PositionOf(id) == cyNodes[IndexOf(cyNodes, id)].pos
LoadDataReturned == stage = "loaded"
LoadFinished == stage = "restored" \/ (stage = "layout" /\ pc = "idle")

\* C9: a node with a saved position keeps exactly that position through
\* loadData and through the layout run performed at load time, for AS,
\* router and interface nodes alike, also when a saved coordinate is 0 and
\* when other nodes of the document have no saved position.
C9_SavedPositionsKept ==
    (LoadDataReturned \/ LoadFinished) =>
        \A id \in DOMAIN savedData.positions :
            PositionOf(id) = savedData.positions[id]

(***************************************************************************)
(* initializeGraph of visualization.js after the document is fetched: the  *)
(* try block validates, builds the elements, constructs cy, runs the       *)
(* layout unless every node has a saved position, and returns cy; the      *)
(* catch block reports the Error and throws it again.                      *)
(***************************************************************************)
\* documents fetched: a well-formed one, and the same with a repeated id,
\* with an octet out of range, with a link to a node that does not exist,
\* and with edges that is not an array
FetchedDocs ==
    { LoadDoc,
      [LoadDoc EXCEPT !.nodes[3].id = "R1"],
      [LoadDoc EXCEPT !.nodes[2].interfaces =
                          Interfaces(<< Entry("eth0", "10.0.0.300/30") >>)],
      [LoadDoc EXCEPT !.edges[1].target = "R9"],
      [LoadDoc EXCEPT !.edgesIsArray = FALSE] }

\* saved state at load time: none, or a position for every node
FetchedSaved ==
    { NoSaved,
      [positions |-> [AS1     |-> Vec(300 * Pix, 200 * Pix),
                      R1      |-> Vec(450 * Pix, 250 * Pix),
                      R2      |-> Vec(150 * Pix, 250 * Pix),
                      R1_eth0 |-> Vec(400 * Pix, 300 * Pix),
                      R2_eth0 |-> Vec(200 * Pix, 300 * Pix)],
       lockedNodes |-> {}] }

InitialLoadInit ==
    /\ graphData \in FetchedDocs
    /\ savedData \in FetchedSaved
    /\ spacings = NoSpacings
    /\ outcome = "pending"
    /\ warnings = << >>
    /\ LayoutIdle
    /\ interfaceNodeToRouter = << >>
    /\ elements = NoElements
    /\ stage = "fetched"
    /\ SliderIdle

\* variant: the catch block reports the Error and the function goes on
afterValidationSwallowed(result) == "idle"

\* where initializeGraph stands after validateGraphData(data): at the next
\* statement of the try block, nothing built yet, or rejected by the catch
\* block
afterValidation(result) == IF result = "valid" THEN "idle" ELSE "rejected"

\* validateGraphData(data); an Error thrown is caught, reported and thrown
\* again, which rejects the promise of initializeGraph
ValidateFetched ==
    /\ stage = "fetched"
    /\ LET r == validateGraphData(graphData) IN
          /\ outcome' = r.outcome
          /\ warnings' = r.warnings
          /\ stage' = afterValidation(r.outcome)
    /\ UNCHANGED <<graphData, interfaceNodeToRouter, elements>>
    /\ UNCHANGED <<layoutVars, loadVars, sliderVars>>

\* return cy
ReturnCy ==
    /\ \/ stage = "loaded" /\ allNodesHaveSavedPositions
       \/ stage = "layout" /\ pc = "idle"
    /\ stage' = "returned"
    /\ UNCHANGED <<interfaceNodeToRouter, elements>>
    /\ UNCHANGED <<layoutVars, dataVars, loadVars, sliderVars>>

InitialLoadNext ==
    \/ ValidateFetched
    \/ LoadData
    \/ LoadLayout
    \/ ForcesStep
    \/ IntegrateStep
    \/ ReorderStep
    \/ CommitStep
    \/ ReturnCy

SpecInitialLoad == InitialLoadInit /\ [][InitialLoadNext]_vars

ValidationThrew == outcome \notin {"pending", "valid"}

\* C13: if validateGraphData throws for the fetched document, initializeGraph
\* is rejected with that Error, and in that load no interface node is
\* generated, no node is placed, no graph instance is built or returned and
\* bgpHierarchicalLayout is not called.
C13_InvalidDocumentAborts ==
    ValidationThrew =>
        /\ stage = "rejected"
        /\ outcome = validateGraphData(graphData).outcome
        /\ interfaceNodeToRouter = << >> /\ elements = NoElements
        /\ cyNodes = << >> /\ cyEdges = << >>
        /\ pc = "idle" /\ nodeMap = NoMap /\ draws = NoDraws

\* the document with the id R1 twice has been rejected for it
C13_Witness ==
    /\ stage = "rejected"
    /\ outcome = "ID duplicado: R1"
    /\ graphData = [LoadDoc EXCEPT !.nodes[3].id = "R1"]

(***************************************************************************)
(* The time slider of setupInteractivity on a graph of two ASes and four   *)
(* routers.  cy.add follows Cytoscape: an element whose id is taken is not *)
(* added, an edge is not added unless both its ends are in the graph, a    *)
(* parent that is not in the graph is dropped from the node.               *)
(***************************************************************************)
MaxPendingRestores == 1

events ==
    << [type |-> "addNode",
        node |-> [id |-> "R16", parent |-> "AS5"],
        edge |-> [source |-> "R14", target |-> "R16", weight |-> "192.168.23.0/30"],
        edgeId |-> ""],
       [type |-> "removeEdge",
        node |-> [id |-> "", parent |-> ""],
        edge |-> [source |-> "", target |-> "", weight |-> ""],
        edgeId |-> "R14_R13_192.168.18.0/30"] >>

\* the graph initializeGraph hands over
ScenarioNodes ==
    << Node("AS5", "", "", "", 200, 350),
       Node("AS6", "", "", "", 1100, 350),
       Node("R14", "", "AS5", "", 350, 350),
       Node("R13", "", "AS5", "", 50, 350),
       Node("R15", "", "AS6", "", 1250, 350),
       Node("R12", "", "AS6", "", 950, 350),
       Node("R14_eth0", "interface", "AS5", "R14", 310, 350),
       Node("R13_eth0", "interface", "AS5", "R13", 90, 350) >>
ScenarioEdges ==
    << Edge("R14_eth0", "R13_eth0", "192.168.18.0/30", ""),
       Edge("AS5", "R14", "", "hierarchical"),
       Edge("AS5", "R13", "", "hierarchical"),
       Edge("AS6", "R15", "", "hierarchical"),
       Edge("AS6", "R12", "", "hierarchical"),
       Edge("R14", "R14_eth0", "", "router-interface"),
       Edge("R13", "R13_eth0", "", "router-interface") >>
\* nodes carrying data.locked when the slider is first used
SliderLocks == {{}, {"R14"}, {"AS5", "R13_eth0"}}

cyAddNode(nodes, n) ==
    IF n.id \in Ids(nodes) THEN nodes
    ELSE Append(nodes, [id |-> n.id, type |-> "",
                        parent |-> IF n.parent \in Ids(nodes) THEN n.parent ELSE "",
                        router |-> "", locked |-> FALSE, pos |-> VZero])
cyAddEdge(nodes, edges, e) ==
    IF e.source \in Ids(nodes) /\ e.target \in Ids(nodes)
    THEN Append(edges, Edge(e.source, e.target, e.weight, ""))
    ELSE edges

\* cy.add(collection): the elements whose ids are free, in order
RECURSIVE cyAddNodes(_, _, _)
cyAddNodes(nodes, added, i) ==
    IF i > Len(added) THEN nodes
    ELSE cyAddNodes(IF added[i].id \in Ids(nodes) THEN nodes
                    ELSE Append(nodes, added[i]), added, i + 1)
RECURSIVE cyAddEdges(_, _, _, _)
cyAddEdges(nodes, edges, added, i) ==
    IF i > Len(added) THEN edges
    ELSE cyAddEdges(nodes,
                    IF added[i].source \in Ids(nodes) /\ added[i].target \in Ids(nodes)
                    THEN Append(edges, added[i]) ELSE edges,
                    added, i + 1)

\* cy.edges().filter(e => e.id() === edgeId): no edge datum carries an id,
\* the ids Cytoscape generates are not the ids the events name
EdgesWithId(edges, edgeId) == << >>

SliderInit ==
    /\ \E locks \in SliderLocks :
          cyNodes = [k \in 1..Len(ScenarioNodes) |->
                        [ScenarioNodes[k] EXCEPT !.locked = ScenarioNodes[k].id \in locks]]
    /\ cyEdges = ScenarioEdges
    /\ pc = "idle"
    /\ nodeMap = NoMap
    /\ iter = 0
    /\ draws = NoDraws
    /\ slotOf = << >>
    /\ lastDraws = NoDraws
    /\ drags = 0
    /\ graphData = NoData
    /\ outcome = "pending"
    /\ warnings = << >>
    /\ interfaceNodeToRouter = << >>
    /\ elements = NoElements
    /\ stage = "interactive"
    /\ LoadIdle
    /\ SliderIdle

layoutRest == <<lastDraws, drags>>
sliderFrame == <<dataVars, transformVars, loadVars>>

\* timeSlider "input" with newIndex > eventIndex: the loop over the events starts
SliderForward ==
    /\ pc = "idle"
    /\ ~inputLoop.active
    /\ \E newIndex \in (eventIndex + 1)..Len(events) :
          inputLoop' = [active |-> TRUE, i |-> eventIndex, newIndex |-> newIndex]
    /\ UNCHANGED <<layoutVars, sliderFrame, eventIndex, restores>>

\* one turn of the loop on an addNode event: cy.add([newNode, newEdge]), then
\* bgpHierarchicalLayout on the nodes and edges of cy
ApplyAddNode ==
    /\ pc = "idle"
    /\ inputLoop.active
    /\ inputLoop.i < inputLoop.newIndex
    /\ LET evt == events[inputLoop.i + 1] IN
          /\ evt.type = "addNode"
          /\ cyNodes' = cyAddNode(cyNodes, evt.node)
          /\ cyEdges' = cyAddEdge(cyNodes', cyEdges, evt.edge)
    /\ BeginLayoutOn(cyNodes')
    /\ inputLoop' = [inputLoop EXCEPT !.i = @ + 1]
    /\ UNCHANGED <<layoutRest, sliderFrame, eventIndex, restores>>

\* one turn of the loop on a removeEdge event: the edge is marked and a timer
\* removes it when it is found; then bgpHierarchicalLayout
ApplyRemoveEdge ==
    /\ pc = "idle"
    /\ inputLoop.active
    /\ inputLoop.i < inputLoop.newIndex
    /\ LET evt == events[inputLoop.i + 1] IN
          /\ evt.type = "removeEdge"
          /\ EdgesWithId(cyEdges, evt.edgeId) = << >>
    /\ BeginLayoutOn(cyNodes)
    /\ inputLoop' = [inputLoop EXCEPT !.i = @ + 1]
    /\ UNCHANGED <<cyNodes, cyEdges, layoutRest, sliderFrame, eventIndex, restores>>

\* the loop is over: eventIndex = newIndex
FinishInput ==
    /\ pc = "idle"
    /\ inputLoop.active
    /\ inputLoop.i = inputLoop.newIndex
    /\ eventIndex' = inputLoop.newIndex
    /\ inputLoop' = NoLoop
    /\ UNCHANGED <<layoutVars, sliderFrame, restores>>

\* timeSlider "input" with newIndex < eventIndex: cy.elements().remove(),
\* initializeGraph() is started, eventIndex = newIndex
SliderBackward ==
    /\ pc = "idle"
    /\ ~inputLoop.active
    /\ Len(restores) < MaxPendingRestores
    /\ \E newIndex \in 0..(eventIndex - 1) :
          /\ restores' = Append(restores, newIndex)
          /\ eventIndex' = newIndex
    /\ cyNodes' = << >>
    /\ cyEdges' = << >>
    /\ UNCHANGED <<pc, nodeMap, iter, draws, slotOf, layoutRest, sliderFrame, inputLoop>>

\* the addNode events before newIndex, added again
RECURSIVE ReAdded(_, _, _)
ReAdded(els, i, newIndex) ==
    IF i >= newIndex THEN els
    ELSE LET evt == events[i + 1]
             nodes == cyAddNode(els.nodes, evt.node)
         IN  ReAdded(IF evt.type = "addNode"
                     THEN [nodes |-> nodes, edges |-> cyAddEdge(nodes, els.edges, evt.edge)]
                     ELSE els, i + 1, newIndex)

\* initializeGraph().then(newCy => ...): the elements of the new graph are
\* added, the addNode events before newIndex again, then the layout runs
RestoreResolves ==
    /\ pc = "idle"
    /\ ~inputLoop.active
    /\ restores # << >>
    /\ LET nodes == cyAddNodes(cyNodes, ScenarioNodes, 1)
           els == ReAdded([nodes |-> nodes,
                           edges |-> cyAddEdges(nodes, cyEdges, ScenarioEdges, 1)],
                          0, Head(restores))
       IN  /\ cyNodes' = els.nodes
           /\ cyEdges' = els.edges
    /\ BeginLayoutOn(cyNodes')
    /\ restores' = Tail(restores)
    /\ UNCHANGED <<layoutRest, sliderFrame, eventIndex, inputLoop>>

SliderNext ==
    \/ SliderForward
    \/ ApplyAddNode
    \/ ApplyRemoveEdge
    \/ FinishInput
    \/ SliderBackward
    \/ RestoreResolves
    \/ ForcesStep
    \/ IntegrateStep
    \/ ReorderStep
    \/ CommitStep

SpecSlider == SliderInit /\ [][SliderNext]_vars

RouterCount(nodes) == Cardinality({i \in 1..Len(nodes) : IsRouter(nodes[i])})
TopologyCount(edges) ==
    Cardinality({i \in 1..Len(edges) : edges[i].type = "" /\ edges[i].weight # ""})
AddNodeEventApplied ==
    /\ inputLoop.active
    /\ inputLoop'.i = inputLoop.i + 1
    /\ events[inputLoop.i + 1].type = "addNode"

\* C4: applying the addNode event (R16 under AS5, edge R14 - R16) through the
\* time slider gives exactly one more router and exactly one more topology
\* edge than before the event, and the layout run of the event leaves every
\* node locked before the event where it was.
C4_AddNodeEvent ==
    [][/\ AddNodeEventApplied =>
             /\ RouterCount(cyNodes') = RouterCount(cyNodes) + 1
             /\ TopologyCount(cyEdges') = TopologyCount(cyEdges) + 1
       /\ inputLoop.active =>
             \A i \in 1..Len(cyNodes) :
                 cyNodes[i].locked => cyNodes'[i].pos = cyNodes[i].pos]_vars

\* the same when the graph of the scenario is in place: AS5 and R14 are in
\* the graph and R16 is not
C4_AddNodeEventOnScenario ==
    [][/\ (/\ AddNodeEventApplied
           /\ {"AS5", "R14"} \subseteq Ids(cyNodes)
           /\ "R16" \notin Ids(cyNodes)) =>
             /\ RouterCount(cyNodes') = RouterCount(cyNodes) + 1
             /\ TopologyCount(cyEdges') = TopologyCount(cyEdges) + 1
       /\ inputLoop.active =>
             \A i \in 1..Len(cyNodes) :
                 cyNodes[i].locked => cyNodes'[i].pos = cyNodes[i].pos]_vars

IsInterfaceId(id) ==
    \E k \in 1..Len(cyNodes) : cyNodes[k].id = id /\ cyNodes[k].type = "interface"

\* C17: after the initial load and any sequence of time-slider events, every
\* Topology edge (an edge that carries a subnet weight) of the graph has
\* both of its ends at Interface nodes.
C17_TopologyEdgesJoinInterfaces ==
    \A i \in 1..Len(cyEdges) :
        cyEdges[i].weight # "" =>
            IsInterfaceId(cyEdges[i].source) /\ IsInterfaceId(cyEdges[i].target)

(***************************************************************************)
(* The layout run an event of the time slider triggers                     *)
(***************************************************************************)
\* C21: on an addNode event only the added node receives a seed position:
\* every unlocked node that was in the graph before the event enters the
\* force pass of the triggered layout at the position it had before the event.
C21_OnlyNewNodeSeeded ==
    [][AddNodeEventApplied =>
          \A i \in 1..Len(cyNodes) :
              ~cyNodes[i].locked => nodeMap'[cyNodes[i].id].pos = cyNodes[i].pos]_vars

RemoveEdgeEventApplied ==
    /\ inputLoop.active
    /\ inputLoop'.i = inputLoop.i + 1
    /\ events[inputLoop.i + 1].type = "removeEdge"

\* the router an end of an edge belongs to
RouterOfEnd(nodes, id) ==
    IF id \in Ids(nodes) /\ IsInterface(nodes[IndexOf(nodes, id)])
    THEN nodes[IndexOf(nodes, id)].router ELSE id
\* the link an edgeId of the events names: source router, target router, subnet
NamedBy(nodes, e, edgeId) ==
    RouterOfEnd(nodes, e.source) \o "_" \o RouterOfEnd(nodes, e.target)
        \o "_" \o e.weight = edgeId

\* C22: when a removeEdge event is applied, the edge it names is out of the
\* graph before the triggered layout reads the edges, so it is not among the
\* edges the attraction loop of that run goes over.
C22_RemovedEdgeNotRead ==
    [][RemoveEdgeEventApplied =>
          \A j \in 1..Len(cyEdges') :
              ~NamedBy(cyNodes', cyEdges'[j], events[inputLoop.i + 1].edgeId)]_vars

\* C23: with positions and lockedNodes stored by saveData and the same
\* document loaded again, every node saved as locked carries data.locked
\* again and sits at its saved position once initializeGraph has completed,
\* whether or not every node of the document has a saved position.
C23_SavedLocksRestored ==
    LoadFinished =>
        \A id \in savedData.lockedNodes :
            id \in DOMAIN savedData.positions =>
                /\ cyNodes[IndexOf(cyNodes, id)].locked
                /\ PositionOf(id) = savedData.positions[id]

(***************************************************************************)
(* Properties of the crossing reduction                                    *)
(***************************************************************************)
\* number of Topology and RouterShadow edges that touch the router id: an end
\* is the router or one of its interfaces
EdgeDegree(nodes, edges, id) ==
    Cardinality({j \in 1..Len(edges) :
        /\ \/ edges[j].type = "" /\ edges[j].weight # ""
           \/ edges[j].type = "router-connection"
        /\ \/ RouterOfEnd(nodes, edges[j].source) = id
           \/ RouterOfEnd(nodes, edges[j].target) = id})

\* C24: in the crossing-reduction pass the degree by which a router is ordered
\* within its AS is the number of Topology and RouterShadow edges touching the
\* router (no hierarchy edge, no edge of a router whose id only contains this
\* router's id), and of two routers of one AS the one with the larger degree
\* gets the smaller slot.
C24_RouterDegreeCountsLinks ==
    pc = "commit" =>
        \A i \in 1..Len(cyNodes) :
            IsRouter(cyNodes[i]) =>
                /\ routerConnections(cyEdges, cyNodes[i])
                       = EdgeDegree(cyNodes, cyEdges, cyNodes[i].id)
                /\ \A j \in 1..Len(cyNodes) :
                      (/\ IsRouter(cyNodes[j])
                       /\ cyNodes[j].parent = cyNodes[i].parent
                       /\ EdgeDegree(cyNodes, cyEdges, cyNodes[i].id)
                             > EdgeDegree(cyNodes, cyEdges, cyNodes[j].id))
                          => slotOf[cyNodes[i].id] < slotOf[cyNodes[j].id]

(***************************************************************************)
(* Subnet check of the validateGraphData variant of part_002               *)
(***************************************************************************)
\* the four octets of a dotted address
OctetsOf(ip) == [i \in 1..4 |-> parseInt(Split(ip, ".")[i]).val]

\* the address of the interface lies in the network the edge declares, at
\* the prefix length the edge declares
EndInDeclaredNetwork(nodes, id, intf, weight) ==
    LET address == Split(InterfaceValue(FindNode(nodes, id).interfaces, intf), "/")[1]
        network == Split(weight, "/")[1]
        prefix  == parseInt(Split(weight, "/")[2]).val
    IN  NetworkOf(OctetsOf(address), prefix) = OctetsOf(network)

SubnetWarnedFor(edge) ==
    \E i \in 1..Len(warnings) :
        warnings[i] = SubnetWarningHead \o edge.source \o " -> " \o edge.target

\* C25: validateGraphData with the structural checks and the subnet check
\* writes no 'IPs not in the specified subnet' warning for an edge whose two
\* endpoint IPs lie in the declared network at the edge's prefix length, and
\* writes one for an edge with an endpoint outside that network.
C25_SubnetWarningIffOutside ==
    outcome = "valid" =>
        \A i \in 1..Len(graphData.edges) :
            LET e == graphData.edges[i] IN
            SubnetWarnedFor(e) <=>
                ~(/\ EndInDeclaredNetwork(graphData.nodes, e.source,
                                          e.sourceInterface, e.weight)
                  /\ EndInDeclaredNetwork(graphData.nodes, e.target,
                                          e.targetInterface, e.weight))

(***************************************************************************)
(* The layout run of initializeGraph on the nodes loadData has placed      *)
(***************************************************************************)
\* node.locked as loadData leaves it: true on AS and router nodes, false on
\* interface nodes; a property of the element, not of its data
lockedByLoadData(node) == node.type # "interface"

\* C26: every node loadData marks as locked (every AS and router node) is
\* treated as locked by the layout run that follows: in the position table of
\* that run it is locked and stays where loadData put it through seeding,
\* force iterations and crossing reduction.
C26_LoadLocksHonoured ==
    (stage = "layout" /\ pc # "idle") =>
        \A i \in 1..Len(cyNodes) :
            lockedByLoadData(cyNodes[i]) =>
                /\ nodeMap[cyNodes[i].id].locked
                /\ nodeMap[cyNodes[i].id].pos = cyNodes[i].pos

\* C27: the crossing reduction never moves a router out of the router band:
\* after the reordering the y of every unlocked router lies within
\* routerYRange, whatever the base angle and the slot of the router are.
C27_RoutersStayInBand ==
    pc = "commit" =>
        \A i \in 1..Len(cyNodes) :
            (IsRouter(cyNodes[i]) /\ ~nodeMap[cyNodes[i].id].locked) =>
                /\ routerYRange[1] <= nodeMap[cyNodes[i].id].pos.y
                /\ nodeMap[cyNodes[i].id].pos.y <= routerYRange[2]

(***************************************************************************)
(* The graph the time slider leaves when nothing is pending                *)
(***************************************************************************)
\* the initial elements with the addNode events before index added
ElementsAt(index) ==
    ReAdded([nodes |-> ScenarioNodes, edges |-> ScenarioEdges], 0, index)
\* the edges of the graph at index: those no removeEdge event before index names
ExpectedEdges(index) ==
    {e \in {ElementsAt(index).edges[j] : j \in 1..Len(ElementsAt(index).edges)} :
        ~\E k \in 1..index :
            /\ events[k].type = "removeEdge"
            /\ NamedBy(ElementsAt(index).nodes, e, events[k].edgeId)}
ParentsOf(nodes) == {<<nodes[i].id, nodes[i].parent>> : i \in 1..Len(nodes)}

NothingPending == restores = << >> /\ ~inputLoop.active /\ pc = "idle"

\* C28: after any sequence of slider inputs, once every pending restore has
\* completed, the graph holds exactly the initial elements plus the effects
\* of events[0..eventIndex): a forward step issued while a restore is pending
\* is neither lost nor overwritten, and no forward step runs against the
\* emptied graph.
C28_GraphMatchesEventIndex ==
    /\ NothingPending =>
          /\ ParentsOf(cyNodes) = ParentsOf(ElementsAt(eventIndex).nodes)
          /\ {cyEdges[j] : j \in 1..Len(cyEdges)} = ExpectedEdges(eventIndex)
    /\ (inputLoop.active /\ inputLoop.i < inputLoop.newIndex) => cyNodes # << >>

(***************************************************************************)
(* bgpHierarchicalLayout of part_001: the ids of the run.  The nodes and   *)
(* edges handed to the function are in elements; a node of the graph has   *)
(* the key under which the graph registered it and the id its data object  *)
(* holds.  Seeding, force iterations and crossing reduction (117-176,      *)
(* 207-332) write pos and vel of entries that exist and add or remove no   *)
(* entry and no edge; they are not followed here.                          *)
(***************************************************************************)
StartsWith(s, prefix) ==
    Len(s) >= Len(prefix) /\ SubSeq(s, 1, Len(prefix)) = prefix

GivenNode(id, label, type, parent, router, locked) ==
    [id |-> id, key |-> id, label |-> label, type |-> type, parent |-> parent,
     router |-> router, locked |-> locked, pos |-> Vec(100 * Pix, 100 * Pix)]

\* the id an interface node has after lines 72-81
interfaceId(node) ==
    IF node.id = "" \/ ~StartsWith(node.id, node.router \o "-")
    THEN node.router \o "-" \o node.label
    ELSE node.id

\* nodes.filter(n => n.data.type === "interface").forEach(...)
withInterfaceIds(nodes) ==
    [i \in 1..Len(nodes) |->
        IF IsInterface(nodes[i])
        THEN [nodes[i] EXCEPT !.id = interfaceId(nodes[i])]
        ELSE nodes[i]]

\* nodeMap of lines 84-100: a node without id gets no entry
nodeMapOfIds(nodes) ==
    [id \in Ids(nodes) \ {""} |-> NodeMapEntry(nodes[IndexOf(nodes, id)])]

isOriginalEdge(edge) ==
    "sourceInterface" \in DOMAIN edge /\ "targetInterface" \in DOMAIN edge

\* the predicate of edges.filter (180-205)
keptByFilter(nodes, nm, edge) ==
    LET validSource == edge.source \in DOMAIN nm
        validTarget == edge.target \in DOMAIN nm
        sourceIsRouter == \E i \in 1..Len(nodes) :
                              nodes[i].id = edge.source /\ IsRouter(nodes[i])
        targetIsRouter == \E i \in 1..Len(nodes) :
                              nodes[i].id = edge.target /\ IsRouter(nodes[i])
    IN  IF ~validSource \/ ~validTarget THEN FALSE
        ELSE IF isOriginalEdge(edge) /\ sourceIsRouter /\ targetIsRouter
                /\ edge.weight # ""
             THEN Split(edge.weight, "/")[1] # ""
        ELSE TRUE

\* ids generateInterfaceNodes gives (router_label) and ids an earlier run of
\* this layout has left (router-label)
InterfaceIdOf == [underscore |-> [R1 |-> "R1_eth0", R2 |-> "R2_eth0"],
                  dash       |-> [R1 |-> "R1-eth0", R2 |-> "R2-eth0"]]

RelabelNodes(s1, s2, locks) ==
    << GivenNode("AS1", "AS1", "", "", "", FALSE),
       GivenNode("R1", "R1", "", "AS1", "", "R1" \in locks),
       GivenNode("R2", "R2", "", "AS1", "", "R2" \in locks),
       GivenNode(InterfaceIdOf[s1]["R1"], "eth0", "interface", "AS1", "R1", FALSE),
       GivenNode(InterfaceIdOf[s2]["R2"], "eth0", "interface", "AS1", "R2", FALSE) >>

RelabelEdges(s1, s2, linked) ==
    (IF linked
     THEN << Edge(InterfaceIdOf[s1]["R1"], InterfaceIdOf[s2]["R2"], "10.0.0.0/30", "") >>
     ELSE << >>)
    \o << Edge("AS1", "R1", "", "hierarchical"),
          Edge("AS1", "R2", "", "hierarchical"),
          Edge("R1", InterfaceIdOf[s1]["R1"], "", "router-interface"),
          Edge("R2", InterfaceIdOf[s2]["R2"], "", "router-interface") >>

RelabelInit ==
    /\ \E s1 \in DOMAIN InterfaceIdOf, s2 \in DOMAIN InterfaceIdOf,
          locks \in SUBSET {"R1", "R2"}, linked \in BOOLEAN :
          /\ cyNodes = RelabelNodes(s1, s2, locks)
          /\ cyEdges = RelabelEdges(s1, s2, linked)
          /\ elements = [nodes |-> cyNodes, edges |-> cyEdges]
    /\ pc = "idle"
    /\ nodeMap = NoMap
    /\ iter = 0
    /\ draws = NoDraws
    /\ slotOf = << >>
    /\ lastDraws = NoDraws
    /\ drags = 0
    /\ graphData = NoData
    /\ outcome = "pending"
    /\ warnings = << >>
    /\ interfaceNodeToRouter = << >>
    /\ stage = "given"
    /\ LoadIdle
    /\ SliderIdle

\* lines 72-100: the ids of the interface nodes are rewritten in the data
\* objects handed over, then nodeMap is built.  The graph either holds those
\* same data objects or copies of them: node.id() of the graph follows the
\* rewrite in the first case only.
RewriteAndMap ==
    /\ stage = "given"
    /\ elements' = [elements EXCEPT !.nodes = withInterfaceIds(elements.nodes)]
    /\ nodeMap' = nodeMapOfIds(elements'.nodes)
    /\ \E sameObjects \in BOOLEAN :
          cyNodes' = IF sameObjects
                     THEN [i \in 1..Len(cyNodes) |->
                              [cyNodes[i] EXCEPT !.id = elements'.nodes[i].id]]
                     ELSE cyNodes
    /\ stage' = "mapped"
    /\ UNCHANGED <<cyEdges, pc, iter, draws, slotOf, lastDraws, drags>>
    /\ UNCHANGED <<dataVars, interfaceNodeToRouter, loadVars, sliderVars>>

\* lines 180-205: edges = edges.filter(...)
FilterEdges ==
    /\ stage = "mapped"
    /\ elements' = [elements EXCEPT !.edges =
                       SelectSeq(elements.edges,
                                 LAMBDA e : keptByFilter(elements.nodes, nodeMap, e))]
    /\ stage' = "filtered"
    /\ UNCHANGED <<layoutVars, dataVars, interfaceNodeToRouter, loadVars, sliderVars>>

\* lines 335-344: a node of the graph takes the position of nodeMap[node.id()]
\* when there is one and keeps its own otherwise
CommitFound ==
    /\ stage = "filtered"
    /\ cyNodes' = [i \in 1..Len(cyNodes) |->
                      IF cyNodes[i].id \in DOMAIN nodeMap
                      THEN [cyNodes[i] EXCEPT !.pos = nodeMap[cyNodes[i].id].pos]
                      ELSE cyNodes[i]]
    /\ nodeMap' = NoMap
    /\ stage' = "committed"
    /\ UNCHANGED <<cyEdges, pc, iter, draws, slotOf, lastDraws, drags>>
    /\ UNCHANGED <<dataVars, interfaceNodeToRouter, elements, loadVars, sliderVars>>

RelabelNext ==
    \/ RewriteAndMap
    \/ FilterEdges
    \/ CommitFound

SpecRelabel == RelabelInit /\ [][RelabelNext]_vars

Keys(nodes) == {nodes[i].key : i \in 1..Len(nodes)}

\* C29: bgpHierarchicalLayout changes the id of no node it is given, so every
\* edge both of whose ends were nodes of the set before the call resolves to
\* entries of nodeMap and is among the edges of the force iterations, and
\* every node of the graph finds its entry when the positions are committed.
C29_NodeIdsKept ==
    stage = "filtered" =>
        /\ \A i \in 1..Len(elements.nodes) : elements.nodes[i].id = elements.nodes[i].key
        /\ \A j \in 1..Len(cyEdges) :
              (cyEdges[j].source \in Keys(cyNodes) /\ cyEdges[j].target \in Keys(cyNodes))
                 => /\ cyEdges[j].source \in DOMAIN nodeMap
                    /\ cyEdges[j].target \in DOMAIN nodeMap
                    /\ \E k \in 1..Len(elements.edges) : elements.edges[k] = cyEdges[j]
        /\ \A i \in 1..Len(cyNodes) : cyNodes[i].id \in DOMAIN nodeMap

(***************************************************************************)
(* detectOverlap and resolveOverlaps of the loadData variant of part_004,  *)
(* on one row of nodes of one kind.  A step is one turn of the do-while.   *)
(***************************************************************************)
MaxRowNodes == 3

\* size1 / size2 of detectOverlap
sizeOf(node) ==
    IF node.type = "interface" THEN 20 * Pix
    ELSE IF node.parent # "" THEN 60 * Pix ELSE 250 * Pix

\* detectOverlap(node1, node2) with the default buffer of 10
detectOverlap(node1, node2) ==
    LET dx == node1.pos.x - node2.pos.x
        dy == node1.pos.y - node2.pos.y
        distance == Sqrt(dx * dx + dy * dy)
    IN  distance < sizeOf(node1) \div 2 + sizeOf(node2) \div 2 + 10 * Pix

\* variant: the smaller of spacing and minSpacing is halved
moveOfSmaller(spacing, minSpacing) == Quot(Min(spacing, minSpacing), 2)

\* const move = Math.max(spacing, minSpacing) / 2
moveOf(spacing, minSpacing) == Quot(Max(spacing, minSpacing), 2)

\* the two for loops from the pair (i, j) on: the row and the flag adjusted
RECURSIVE resolvePass(_, _, _, _, _)
resolvePass(nodes, move, i, j, adjusted) ==
    IF i > Len(nodes) THEN [nodes |-> nodes, adjusted |-> adjusted]
    ELSE IF j > Len(nodes) THEN resolvePass(nodes, move, i + 1, i + 2, adjusted)
    ELSE IF detectOverlap(nodes[i], nodes[j])
         THEN resolvePass([nodes EXCEPT ![i].pos.x = @ - move, ![j].pos.x = @ + move],
                          move, i, j + 1, TRUE)
         ELSE resolvePass(nodes, move, i, j + 1, adjusted)

\* rows explored: AS, router or interface nodes at these x, in any order
RowKinds == {"as", "router", "interface"}
RowXs == {0, 30 * Pix}
RowSpacings == {0, 300 * Pix}
RowMinSpacings == {0, 60 * Pix, 250 * Pix}

RowNode(kind, k, x) ==
    [id |-> ToString(k),
     type |-> IF kind = "interface" THEN "interface" ELSE "",
     parent |-> IF kind = "as" THEN "" ELSE "AS1",
     router |-> IF kind = "interface" THEN "R1" ELSE "",
     locked |-> FALSE, pos |-> Vec(x, 120 * Pix)]

\* loadData before its first call of resolveOverlaps
OverlapsInit ==
    /\ LayoutIdle
    /\ EnvIdle

\* resolveOverlaps(nodes, spacing, minSpacing) is entered
CallResolveOverlaps ==
    /\ stage = "idle"
    /\ \E kind \in RowKinds, n \in 0..MaxRowNodes :
          \E xs \in [1..n -> RowXs] :
              cyNodes' = [k \in 1..n |-> RowNode(kind, k, xs[k])]
    /\ spacings' \in [spacing : RowSpacings, minSpacing : RowMinSpacings]
    /\ stage' = "resolving"
    /\ UNCHANGED <<cyEdges, pc, nodeMap, iter, draws, slotOf, lastDraws, drags>>
    /\ UNCHANGED <<dataVars, interfaceNodeToRouter, elements, savedData, sliderVars>>

\* one turn of do { ... } while (adjusted); return nodes
ResolveTurn ==
    /\ stage = "resolving"
    /\ LET r == resolvePass(cyNodes, moveOf(spacings.spacing, spacings.minSpacing),
                            1, 2, FALSE)
       IN  /\ cyNodes' = r.nodes
           /\ stage' = IF r.adjusted THEN "resolving" ELSE "returned"
    /\ UNCHANGED <<cyEdges, pc, nodeMap, iter, draws, slotOf, lastDraws, drags>>
    /\ UNCHANGED <<dataVars, interfaceNodeToRouter, elements, loadVars, sliderVars>>

OverlapsNext ==
    \/ CallResolveOverlaps
    \/ ResolveTurn

SpecOverlaps == OverlapsInit /\ [][OverlapsNext]_vars
\* the loop runs on: a turn that changes the row is taken
SpecOverlapsLive == SpecOverlaps /\ WF_vars(OverlapsNext)

OverlapsEntered == stage = "resolving"
OverlapsReturned == stage = "returned"
NoOverlapLeft ==
    \A i, j \in 1..Len(cyNodes) :
        i < j => ~detectOverlap(cyNodes[i], cyNodes[j])

====
